---- MODULE Spec2Model ----
(***************************************************************************)
(* Verification model of the wizard orchestration of vscode-azurefunctions *)
(*                                                                         *)
(*  - the function-create step and its post-creation cache                 *)
(*    (src/src/commands/createFunction/FunctionCreateStepBase.ts,          *)
(*     src/src/commands/createNewProject/createNewProject.ts)              *)
(*  - the app-settings builder createFunctionAppSettings                   *)
(*    (src/unnamed/part_000, lines 193-247)                                *)
(*  - FunctionAppProvider.createChildImpl (src/unnamed/part_000, 69-168)   *)
(*                                                                         *)
(* The three parts share no state in the program, so each has its own      *)
(* specification over the same variables; the variables of the other two   *)
(* parts stay at their initial values.                                     *)
(*                                                                         *)
(* Time is counted in seconds.  A timer armed with setTimeout fires when   *)
(* its delay has elapsed: the clock does not advance past a due timer.     *)
(* globalState.update is taken to change the stored value at once.         *)
(***************************************************************************)
EXTENDS Integers, Sequences, FiniteSets, TLC

\* JavaScript's undefined, for string-valued fields
Undefined == "undefined"

\* ------------------------------------------------------------------ bounds
\* function files created (successful executeCore calls) in one behaviour
MaxCreates == 2
\* restarts of the extension host in one behaviour
MaxRestarts == 2
\* calls of createChildImpl in one behaviour
MaxCalls == 1
\* the most trigger settings a caller passes to the template list step
MaxTriggerSettings == 2

\* calls of FunctionCreateStepBase.execute followed line by line
MaxExecutes == 2

\* calls of loadMoreChildrenImpl in one behaviour
MaxLoads == 3

\* ------------------------------------------------------- program constants
\* setTimeout(..., 5 * 1000), in seconds
TimerSecs == 5

VARIABLES
    \* ---- function-create step and post-creation cache
    globalState,    \* the durable store's value under cacheKey: {} or {record}
    timers,         \* pending setTimeout callbacks of the running process
    epoch,          \* number of extension-host restarts so far
    activated,      \* the extension has been activated in this process
    pc,             \* position of the project wizard
    ctx,            \* the wizard context (IFunctionWizardContext)
    created,        \* history: one entry per created function file
    heldFor,        \* history: seconds since the stored record was written
    heldEpoch,      \* history: epoch in which the stored record was written
    \* ---- app-settings builder
    asInput,        \* the arguments of one call of createFunctionAppSettings
    appSettings,    \* the list the call returned
    asDone,         \* the call has returned
    \* ---- FunctionAppProvider.createChildImpl
    ccPc,           \* position of the running createChildImpl call
    ccIn,           \* what the call read: advancedCreation, language, runtime
    wizardContext,  \* the IAppServiceWizardContext of the call
    promptSteps,    \* the wizard's prompt steps
    executeSteps,   \* the wizard's execute steps
    ccEvents,       \* history: the call's events, in order
    ccOut,          \* how the call ended: error thrown, handle returned
    pendingOffers,  \* 'turn on advanced creation' warnings not yet answered
    globalAdvanced, \* the global setting advancedCreation
    ccCalls,        \* number of createChildImpl calls so far
    \* ---- FunctionListStep
    lsPc,           \* position of the wizard around the template list step
    lsStep,         \* the step's fields: _isProjectWizard, _triggerSettings
    lsCtx,          \* the IFunctionWizardContext the step works on
    lsFilter,       \* prompt's local templateFilter
    lsSetting,      \* the workspace setting templateFilter
    lsPicks,        \* the list of picks shown last
    lsShown,        \* history: the filter of the list shown last
    lsSub,          \* what getSubWizard returned
    lsFile,         \* what the wizard's execute phase did
    lsCreate,       \* history: what FunctionListStep.create was asked and did
    \* ---- one FunctionCreateStepBase.execute call at a time, step by step
    exPc,           \* position inside execute
    exCtx,          \* the context of the call: functionTemplate, openBehavior
    exCalls,        \* number of execute calls so far
    exTrace,        \* history: the steps the running call has taken, in order
    exScan,         \* what shouldUseExtensionBundle read and answered
    exHost,         \* the project's host.json
    exVerify,       \* what verifyExtensionBundle did: runs, last outcome
    exStore,        \* the durable store's value under cacheKey
    exTimers,       \* history: clearing timers armed since the last call began
    exFiles,        \* history: function files created since the last call began
    exPosts,        \* number of post-creation tasks started and not yet run
    exPost,         \* history: what the post-creation task run last found and
                    \* did since the last call began
    exOut,          \* the error the last call threw, or "none"
    \* ---- FunctionAppProvider: listing the function apps page by page
    pgNextLink,     \* this._nextLink
    pgLast,         \* the last loadMoreChildrenImpl call: request and outcome
    pgListed,       \* history: the link of the most recent successful listing
    pgCalls,        \* number of loadMoreChildrenImpl calls so far
    \* ---- uploadAppSettings
    upPc,           \* position inside uploadAppSettings
    upFile,         \* the local settings file as first read
    upLocal,        \* localSettings: the file as read last
    upRemote,       \* the remote application settings and what was done to them
    upTrace,        \* history: the calls made, in order
    upOut           \* how the call ended

cacheVars == <<globalState, timers, epoch, activated, pc, ctx, created,
               heldFor, heldEpoch>>

settingsVars == <<asInput, appSettings, asDone>>

childVars == <<ccPc, ccIn, wizardContext, promptSteps, executeSteps, ccEvents,
               ccOut, pendingOffers, globalAdvanced, ccCalls>>

listVars == <<lsPc, lsStep, lsCtx, lsFilter, lsSetting, lsPicks, lsShown, lsSub,
              lsFile, lsCreate>>

executeVars == <<exPc, exCtx, exCalls, exTrace, exScan, exHost, exVerify, exStore,
                 exTimers, exFiles, exPosts, exPost, exOut>>

pageVars == <<pgNextLink, pgLast, pgListed, pgCalls>>

uploadVars == <<upPc, upFile, upLocal, upRemote, upTrace, upOut>>

vars == <<cacheVars, settingsVars, childVars, listVars, executeVars, pageVars,
          uploadVars>>

\* ================================================================ values

\* if (x) on a string | undefined
Truthy(s) == s \notin {Undefined, ""}

\* values of the projectOpenBehavior workspace setting (undefined: not set)
OpenBehaviorSettings == {Undefined, "AddToWorkspace", "AlreadyOpen"}

\* templates the template list step may have selected (undefined: skipped)
HttpTemplate  == [id |-> "HttpTrigger",  isHttpTrigger |-> TRUE,  isTimerTrigger |-> FALSE]
TimerTemplate == [id |-> "TimerTrigger", isHttpTrigger |-> FALSE, isTimerTrigger |-> TRUE]
QueueTemplate == [id |-> "QueueTrigger", isHttpTrigger |-> FALSE, isTimerTrigger |-> FALSE]
NoTemplate    == [id |-> Undefined,      isHttpTrigger |-> FALSE, isTimerTrigger |-> FALSE]
Templates == {HttpTemplate, TimerTemplate, QueueTemplate}

ProjectPath == "/projects/app"

\* enum ProjectLanguage and enum ProjectRuntime (v1, v2)
ProjectLanguages == {"JavaScript", "TypeScript", "Python", "Java", "C#", "F#", "C#Script"}
v1 == "~1"
v2 == "~2"
ProjectRuntimes == {v1, v2}

\* host.json as read by fse.readJSON: parses or not, and its extensionBundle
NoBundle      == [id |-> Undefined, version |-> Undefined]
DefaultBundle == [id |-> "Microsoft.Azure.Functions.ExtensionBundle", version |-> "[1.*, 2.0.0)"]
UserBundle    == [id |-> "Contoso.Bundle", version |-> "[0.1, 0.2)"]
\* the field is there with a value that if (!x) takes for missing, such as null
NullBundle    == [id |-> "null", version |-> "null"]
HostJsons == [parses : BOOLEAN, version : {"2.0"},
              extensionBundle : {NoBundle, NullBundle, DefaultBundle, UserBundle}]

\* a file under .vscode as the legacy-command scan finds it
ScanFiles == {"absent", "clean", "legacy", "ioerror"}

\* the wizard context when no wizard runs
NoCtx == [openFolder |-> TRUE, openBehavior |-> Undefined,
          functionTemplate |-> NoTemplate, newFilePath |-> 0]

\* interface ICachedFunction
CachedFunction(projectPath, newFilePath, isHttpTrigger) ==
    [projectPath |-> projectPath, newFilePath |-> newFilePath,
     isHttpTrigger |-> isHttpTrigger]


\* ===================================== createFunctionAppSettings (part_000)

\* type WebsiteOS
WebsiteOSs == {"windows", "linux"}

\* worker-runtime identifiers of the context (undefined: none)
WorkerRuntimes == {Undefined, "node", "python"}

NameValuePair(n, v) == [name |-> n, value |-> v]

\* names the feed's base settings may carry: by the design they are none of
\* the names the builder adds itself
FeedKeys == {"FUNCTIONS_EXTENSION_VERSION", "WEBSITE_NODE_DEFAULT_VERSION"}

\* Object.keys(cliFeedAppSettings) mapped to pairs, in the map's key order
RECURSIVE FeedPairs(_, _)
FeedPairs(keys, projectRuntime) ==
    IF keys = {} THEN <<>>
    ELSE LET k == CHOOSE x \in keys : TRUE
         IN  <<NameValuePair(k, projectRuntime)>> \o FeedPairs(keys \ {k}, projectRuntime)

\* getCliFeedAppSettings(projectRuntime): the runtime-specific base settings
\* the feed may return, as the pairs of lines 197-202
GetCliFeedAppSettings(projectRuntime) ==
    {FeedPairs(ks, projectRuntime) : ks \in SUBSET FeedKeys}

\* (mutant) the dashboard value is pushed under the storage key again
PushDashboardAsStorage(list, context, projectRuntime) ==
    IF projectRuntime = v1
    THEN Append(list, NameValuePair("AzureWebJobsStorage", context.storageConnectionString))
    ELSE list

\* lines 209-215: the dashboard key, for v1 only
PushDashboard(list, context, projectRuntime) ==
    IF projectRuntime = v1
    THEN Append(list, NameValuePair("AzureWebJobsDashboard", context.storageConnectionString))
    ELSE list

\* (mutant) the file-share settings are pushed for every OS
PushWindowsSettingsAlways(list, context) ==
    list \o <<NameValuePair("WEBSITE_CONTENTAZUREFILECONNECTIONSTRING",
                            context.storageConnectionString),
              NameValuePair("WEBSITE_CONTENTSHARE", context.fileShareName)>>

\* lines 217-227: the two file-share settings, for windows only
PushWindowsSettings(list, context) ==
    IF context.os = "windows"
    THEN list \o <<NameValuePair("WEBSITE_CONTENTAZUREFILECONNECTIONSTRING",
                                 context.storageConnectionString),
                   NameValuePair("WEBSITE_CONTENTSHARE", context.fileShareName)>>
    ELSE list

\* lines 229-234: the worker runtime, when the context has one
PushWorkerRuntime(list, context) ==
    IF Truthy(context.runtime)
    THEN Append(list, NameValuePair("FUNCTIONS_WORKER_RUNTIME", context.runtime))
    ELSE list

\* (mutant) the flag is withheld from C# script on every runtime
PushRunFromPackageAnyRuntime(list, context, projectRuntime, projectLanguage) ==
    IF context.os # "linux" /\ ~(projectLanguage = "C#Script")
    THEN Append(list, NameValuePair("WEBSITE_RUN_FROM_PACKAGE", "1"))
    ELSE list

\* lines 236-244: the run-from-package flag
PushRunFromPackage(list, context, projectRuntime, projectLanguage) ==
    IF context.os # "linux" /\ ~(projectLanguage = "C#Script" /\ projectRuntime = v1)
    THEN Append(list, NameValuePair("WEBSITE_RUN_FROM_PACKAGE", "1"))
    ELSE list

\* createFunctionAppSettings(context, projectRuntime, projectLanguage), with
\* cliFeedAppSettings the pairs of the map getCliFeedAppSettings returned
CreateFunctionAppSettings(cliFeedAppSettings, context, projectRuntime, projectLanguage) ==
    LET s1 == Append(cliFeedAppSettings,
                     NameValuePair("AzureWebJobsStorage", context.storageConnectionString))
        s2 == PushDashboard(s1, context, projectRuntime)
        s3 == PushWindowsSettings(s2, context)
        s4 == PushWorkerRuntime(s3, context)
    IN  PushRunFromPackage(s4, context, projectRuntime, projectLanguage)

\* the inputs of a call
AppSettingsContexts ==
    [storageConnectionString : {"DefaultEndpointsProtocol=https;AccountName=a"},
     fileShareName : {"share1"},
     os : WebsiteOSs,
     runtime : WorkerRuntimes]

AppSettingsInputs ==
    UNION {[feed : GetCliFeedAppSettings(rt),
            context : AppSettingsContexts,
            projectRuntime : {rt},
            projectLanguage : ProjectLanguages \cup {Undefined}] : rt \in ProjectRuntimes}

\* no call of the builder is under way
SettingsIdle ==
    /\ asInput = [feed |-> <<>>,
                  context |-> [storageConnectionString |-> "", fileShareName |-> "",
                               os |-> "windows", runtime |-> Undefined],
                  projectRuntime |-> v2, projectLanguage |-> Undefined]
    /\ appSettings = <<>>
    /\ asDone = FALSE

\* the site-create step calls the builder
BuildAppSettings ==
    /\ UNCHANGED <<cacheVars, childVars, listVars,
                   executeVars, pageVars, uploadVars>>
    /\ ~asDone
    /\ appSettings' = CreateFunctionAppSettings(asInput.feed, asInput.context,
                                                asInput.projectRuntime, asInput.projectLanguage)
    /\ asDone' = TRUE
    /\ UNCHANGED asInput


\* ============================= FunctionAppProvider.createChildImpl (part_000)

\* (mutant) the func cli's answer is recorded as the source even when the cli
\* found no runtime and v2 was used
GetDefaultRuntimeSourceStuck(settingRuntime, cliRuntime) ==
    IF Truthy(settingRuntime)
    THEN [runtime |-> settingRuntime, runtimeSource |-> "VSCodeSetting",
          cliConsulted |-> FALSE]
    ELSE [runtime |-> IF Truthy(cliRuntime) THEN cliRuntime ELSE v2,
          runtimeSource |-> "LocalFuncCli", cliConsulted |-> TRUE]

\* getDefaultRuntime: the workspace setting (already converted to a runtime),
\* else the local func cli's runtime, else v2; cliConsulted records that
\* tryGetLocalRuntimeVersion was called (line 178)
GetDefaultRuntime(settingRuntime, cliRuntime) ==
    IF Truthy(settingRuntime)
    THEN [runtime |-> settingRuntime, runtimeSource |-> "VSCodeSetting",
          cliConsulted |-> FALSE]
    ELSE IF Truthy(cliRuntime)
         THEN [runtime |-> cliRuntime, runtimeSource |-> "LocalFuncCli",
               cliConsulted |-> TRUE]
         ELSE [runtime |-> v2, runtimeSource |-> "Backup", cliConsulted |-> TRUE]

\* getFunctionsWorkerRuntime(language)
GetFunctionsWorkerRuntime(language) ==
    CASE language \in {"JavaScript", "TypeScript"} -> "node"
      [] language \in {"C#", "C#Script", "F#"} -> "dotnet"
      [] language = "Java" -> "java"
      [] language = "Python" -> "python"
      [] OTHER -> Undefined

\* line 102: !!getWorkspaceSetting(advancedCreationKey); the workspace value
\* wins over the global one
AdvancedCreation(workspaceValue, globalValue) ==
    IF workspaceValue = Undefined THEN globalValue ELSE workspaceValue = "true"

\* (mutant) the two operating systems are swapped
NewSiteOSSwapped(language) == IF language = "Python" THEN "windows" ELSE "linux"

\* line 106: the OS of the quick path
NewSiteOS(language) == IF language = "Python" THEN "linux" ELSE "windows"

\* lines 78-86: the context the call starts with
NewWizardContext(resourceGroup) ==
    [newSiteKind |-> "functionapp", newResourceGroupName |-> resourceGroup,
     resourceGroupDeferLocationStep |-> TRUE,
     useConsumptionPlan |-> FALSE, newSiteOS |-> Undefined,
     newSiteRuntime |-> Undefined, location |-> Undefined,
     newSiteName |-> Undefined, relatedName |-> Undefined,
     newStorageAccountName |-> Undefined, site |-> Undefined]

\* lines 104-112: the quick path's defaults
QuickDefaults(c, language) ==
    [c EXCEPT !.useConsumptionPlan = TRUE,
              !.newSiteOS = NewSiteOS(language),
              !.newSiteRuntime = GetFunctionsWorkerRuntime(language),
              !.location = "westus"]

\* lines 90-93 and 113-114
ComposePromptSteps(advancedCreation) ==
    <<"SiteNameStep", "SiteOSStep", "SiteHostingPlanStep", "SiteRuntimeStep">>
    \o (IF advancedCreation
        THEN <<"ResourceGroupListStep", "StorageAccountListStep">> ELSE <<>>)

\* (mutant) the site is created before the resources it needs
ComposeExecuteStepsSiteFirst(advancedCreation) ==
    <<"SiteCreateStep">>
    \o (IF advancedCreation
        THEN <<>> ELSE <<"ResourceGroupCreateStep", "StorageAccountCreateStep">>)

\* lines 110-111 and 131
ComposeExecuteSteps(advancedCreation) ==
    (IF advancedCreation
     THEN <<>> ELSE <<"ResourceGroupCreateStep", "StorageAccountCreateStep">>)
    \o <<"SiteCreateStep">>

\* (mutant) the warning is shown after a user cancellation too
OffersAdvancedCreationOnCancel(error, advancedCreation) == ~advancedCreation

\* line 152: the warning is shown for this error
OffersAdvancedCreation(error, advancedCreation) ==
    error # "UserCancelledError" /\ ~advancedCreation

NoCall == [advancedCreation |-> FALSE, language |-> Undefined, runtime |-> v2,
           runtimeSource |-> "Backup", resourceGroup |-> Undefined,
           settingRuntime |-> Undefined, cliRuntime |-> Undefined,
           cliConsulted |-> FALSE]
NoOutcome == [cause |-> "none", thrown |-> "none", raised |-> "none",
              handle |-> Undefined, offered |-> FALSE]

\* ---- actions

\* createChildImpl, lines 73-134: read the settings, compose the wizard
CreateChildStart ==
    /\ UNCHANGED <<cacheVars, settingsVars, listVars,
                   executeVars, pageVars, uploadVars>>
    /\ ccPc \in {"idle", "failed", "done"}
    /\ ccCalls < MaxCalls
    /\ ccCalls' = ccCalls + 1
    /\ \E resourceGroup \in {Undefined, "rg-given"},
          settingRuntime \in ProjectRuntimes \cup {Undefined},
          cliRuntime \in ProjectRuntimes \cup {Undefined},
          language \in ProjectLanguages \cup {Undefined},
          workspaceAdvanced \in {Undefined, "true", "false"} :
          LET rt == GetDefaultRuntime(settingRuntime, cliRuntime)
              advancedCreation == AdvancedCreation(workspaceAdvanced, globalAdvanced)
              c == NewWizardContext(resourceGroup)
          IN  /\ ccIn' = [advancedCreation |-> advancedCreation, language |-> language,
                          runtime |-> rt.runtime, runtimeSource |-> rt.runtimeSource,
                          resourceGroup |-> resourceGroup,
                          settingRuntime |-> settingRuntime,
                          cliRuntime |-> cliRuntime,
                          cliConsulted |-> rt.cliConsulted]
              /\ wizardContext' = IF advancedCreation THEN c ELSE QuickDefaults(c, language)
              /\ promptSteps' = ComposePromptSteps(advancedCreation)
              /\ executeSteps' = ComposeExecuteSteps(advancedCreation)
    /\ ccEvents' = <<>>
    /\ ccOut' = NoOutcome
    /\ ccPc' = "prompting"
    /\ UNCHANGED <<pendingOffers, globalAdvanced>>

\* line 136: await wizard.prompt(actionContext); the steps fill the context
\* or one of them throws (the user cancels, or another error)
WizardPrompt ==
    /\ UNCHANGED <<cacheVars, settingsVars, listVars,
                   executeVars, pageVars, uploadVars>>
    /\ ccPc = "prompting"
    /\ \/ \E error \in {"UserCancelledError", "PromptError"} :
            /\ ccOut' = [ccOut EXCEPT !.cause = "prompt", !.thrown = error, !.raised = error]
            /\ ccPc' = "failed"
            /\ UNCHANGED <<wizardContext, ccEvents>>
       \/ \E siteName \in {Undefined, "app1"}, relatedName \in {Undefined, "", "app1x", "rejects"},
            os \in WebsiteOSs, workerRuntime \in WorkerRuntimes :
            /\ wizardContext' =
                  [wizardContext EXCEPT
                     !.newSiteName = siteName,
                     !.relatedName = IF ccIn.advancedCreation THEN Undefined ELSE relatedName,
                     !.newSiteOS = IF @ = Undefined THEN os ELSE @,
                     !.newSiteRuntime = IF ccIn.advancedCreation THEN workerRuntime ELSE @,
                     !.newResourceGroupName = IF ccIn.advancedCreation THEN "rg-picked" ELSE @,
                     !.newStorageAccountName = IF ccIn.advancedCreation THEN "sa-picked" ELSE @]
            /\ ccEvents' = Append(ccEvents, "promptDone")
            /\ ccPc' = "prompted"
            /\ UNCHANGED ccOut
    /\ UNCHANGED <<ccIn, promptSteps, executeSteps, pendingOffers, globalAdvanced, ccCalls>>

\* lines 137-139: showCreatingTreeItem(nonNullProp(wizardContext, 'newSiteName'))
ShowCreatingTreeItem ==
    /\ UNCHANGED <<cacheVars, settingsVars, listVars,
                   executeVars, pageVars, uploadVars>>
    /\ ccPc = "prompted"
    /\ IF wizardContext.newSiteName = Undefined
       THEN /\ ccOut' = [ccOut EXCEPT !.cause = "noSiteName", !.thrown = "NonNullError",
                                      !.raised = "NonNullError"]
            /\ ccPc' = "failed"
            /\ UNCHANGED ccEvents
       ELSE /\ ccEvents' = Append(ccEvents, "placeholder")
            /\ ccPc' = IF ccIn.advancedCreation THEN "execute" ELSE "naming"
            /\ UNCHANGED ccOut
    /\ UNCHANGED <<ccIn, wizardContext, promptSteps, executeSteps, pendingOffers,
                   globalAdvanced, ccCalls>>

\* (mutant) a missing name is not noticed
NameMissingNever(newName) == FALSE

\* line 142: if (!newName)
NameMissing(newName) == ~Truthy(newName)

\* lines 140-147, quick path: the generated unique name names the resources
AwaitRelatedName ==
    /\ UNCHANGED <<cacheVars, settingsVars, listVars,
                   executeVars, pageVars, uploadVars>>
    /\ ccPc = "naming"
    /\ LET newName == wizardContext.relatedName
       IN  IF newName = "rejects"
           THEN /\ ccOut' = [ccOut EXCEPT !.cause = "nameTask", !.thrown = "NameTaskError",
                                          !.raised = "NameTaskError"]
                /\ ccPc' = "failed"
                /\ UNCHANGED wizardContext
           ELSE IF NameMissing(newName)
           THEN /\ ccOut' = [ccOut EXCEPT !.cause = "noUniqueName", !.thrown = "NoUniqueNameError",
                                          !.raised = "NoUniqueNameError"]
                /\ ccPc' = "failed"
                /\ UNCHANGED wizardContext
           ELSE /\ wizardContext' =
                     [wizardContext EXCEPT
                        !.newResourceGroupName =
                            IF Truthy(ccIn.resourceGroup) THEN ccIn.resourceGroup ELSE newName,
                        !.newStorageAccountName = newName]
                /\ ccPc' = "execute"
                /\ UNCHANGED ccOut
    /\ UNCHANGED <<ccIn, promptSteps, executeSteps, ccEvents, pendingOffers,
                   globalAdvanced, ccCalls>>

\* lines 149-164: await wizard.execute(actionContext); on an error the warning
\* may be shown (not awaited) and the error is thrown again
WizardExecute ==
    /\ UNCHANGED <<cacheVars, settingsVars, listVars,
                   executeVars, pageVars, uploadVars>>
    /\ ccPc = "execute"
    /\ ccEvents' = Append(ccEvents, "executeStart")
    /\ \/ \E error \in {"UserCancelledError", "CloudError"} :
            LET offer == OffersAdvancedCreation(error, ccIn.advancedCreation)
            IN  /\ ccOut' = [ccOut EXCEPT !.cause = "execute", !.thrown = error,
                                          !.raised = error, !.offered = offer]
                /\ pendingOffers' = IF offer THEN pendingOffers + 1 ELSE pendingOffers
                /\ ccPc' = "failed"
                /\ UNCHANGED wizardContext
       \/ \E site \in {Undefined, "site1"} :
            /\ wizardContext' = [wizardContext EXCEPT !.site = site]
            /\ ccPc' = "return"
            /\ UNCHANGED <<ccOut, pendingOffers>>
    /\ UNCHANGED <<ccIn, promptSteps, executeSteps, globalAdvanced, ccCalls>>

\* lines 166-167: the handle of the new site is returned
ReturnTreeItem ==
    /\ UNCHANGED <<cacheVars, settingsVars, listVars,
                   executeVars, pageVars, uploadVars>>
    /\ ccPc = "return"
    /\ IF wizardContext.site = Undefined
       THEN /\ ccOut' = [ccOut EXCEPT !.cause = "noSite", !.thrown = "NonNullError",
                                      !.raised = "NonNullError"]
            /\ ccPc' = "failed"
       ELSE /\ ccOut' = [ccOut EXCEPT !.handle = wizardContext.site]
            /\ ccPc' = "done"
    /\ UNCHANGED <<ccIn, wizardContext, promptSteps, executeSteps, ccEvents,
                   pendingOffers, globalAdvanced, ccCalls>>

\* lines 156-160: the user presses 'Turn on advanced creation'
AcceptOffer ==
    /\ UNCHANGED <<cacheVars, settingsVars, listVars,
                   executeVars, pageVars, uploadVars>>
    /\ pendingOffers > 0
    /\ pendingOffers' = pendingOffers - 1
    /\ globalAdvanced' = TRUE
    /\ UNCHANGED <<ccPc, ccIn, wizardContext, promptSteps, executeSteps, ccEvents,
                   ccOut, ccCalls>>

\* lines 156-160: the user dismisses the warning
DismissOffer ==
    /\ UNCHANGED <<cacheVars, settingsVars, listVars,
                   executeVars, pageVars, uploadVars>>
    /\ pendingOffers > 0
    /\ pendingOffers' = pendingOffers - 1
    /\ UNCHANGED <<ccPc, ccIn, wizardContext, promptSteps, executeSteps, ccEvents,
                   ccOut, globalAdvanced, ccCalls>>

\* no createChildImpl call has been made
ChildIdle ==
    /\ ccPc = "idle"
    /\ ccIn = NoCall
    /\ wizardContext = NewWizardContext(Undefined)
    /\ promptSteps = <<>>
    /\ executeSteps = <<>>
    /\ ccEvents = <<>>
    /\ ccOut = NoOutcome
    /\ pendingOffers = 0
    /\ globalAdvanced = FALSE
    /\ ccCalls = 0

\* ============================================ FunctionCreateStepBase.ts

\* (mutant) openFolder = false leaves the open behaviour unset
OpenBehaviorOfUnset(openFolder, setting) ==
    IF ~openFolder THEN Undefined ELSE setting

\* createNewProject, lines 39-44: the open behaviour the wizard context starts with
OpenBehaviorOf(openFolder, setting) ==
    IF ~openFolder THEN "DontOpen" ELSE setting

\* FunctionCreateStepBase.shouldExecute
ShouldExecute(c) == c.functionTemplate # NoTemplate

\* (mutant) a timer trigger is given the bundle check
ShouldUseExtensionBundleForTimer(runtime, template, language, tasksFile, settingsFile) ==
    IF \/ runtime = v1
       \/ template.isHttpTrigger
       \/ language = "C#" \/ language = "F#"
    THEN FALSE
    ELSE CASE tasksFile = "legacy"  -> FALSE
           [] tasksFile = "ioerror" -> TRUE
           [] OTHER -> settingsFile # "legacy"

\* FunctionCreateStepBase.shouldUseExtensionBundle; tasksFile and settingsFile
\* are scanned in this order, and an I/O error ends the scan
ShouldUseExtensionBundle(runtime, template, language, tasksFile, settingsFile) ==
    IF \/ runtime = v1
       \/ template.isHttpTrigger \/ template.isTimerTrigger
       \/ language = "C#" \/ language = "F#"
    THEN FALSE
    ELSE CASE tasksFile = "legacy"  -> FALSE
           [] tasksFile = "ioerror" -> TRUE
           [] OTHER -> settingsFile # "legacy"

\* line 77: if (!hostJson.extensionBundle) is not taken
BundleTruthy(extensionBundle) == extensionBundle \notin {NoBundle, NullBundle}

\* (mutant) the default bundle is written over whatever the file declares
VerifyExtensionBundleOverwrites(hostJson, writeOk) ==
    IF ~hostJson.parses
    THEN [file |-> hostJson, throws |-> TRUE, wrote |-> FALSE]
    ELSE IF writeOk
         THEN [file |-> [hostJson EXCEPT !.extensionBundle = DefaultBundle],
               throws |-> FALSE, wrote |-> TRUE]
         ELSE [file |-> hostJson, throws |-> TRUE, wrote |-> FALSE]

\* FunctionCreateStepBase.verifyExtensionBundle: the file afterwards, and
\* whether the call throws (host.json unreadable, or the write fails)
VerifyExtensionBundle(hostJson, writeOk) ==
    IF ~hostJson.parses
    THEN [file |-> hostJson, throws |-> TRUE, wrote |-> FALSE]
    ELSE IF ~BundleTruthy(hostJson.extensionBundle)
         THEN IF writeOk
              THEN [file |-> [hostJson EXCEPT !.extensionBundle = DefaultBundle],
                    throws |-> FALSE, wrote |-> TRUE]
              ELSE [file |-> hostJson, throws |-> TRUE, wrote |-> FALSE]
         ELSE [file |-> hostJson, throws |-> FALSE, wrote |-> FALSE]

\* runPostFunctionCreateSteps(func): the call is recorded in the history
\* (how: "immediate" from execute, "fromCache" from the cache)
RunPostFunctionCreateSteps(hist, func, how) ==
    [hist EXCEPT ![func.newFilePath][how] = @ + 1]

\* (mutant) the record is cached whatever the open behaviour
ShouldCacheAlways(c) == TRUE

\* execute, line 63: if (wizardContext.openBehavior)
ShouldCache(c) == Truthy(c.openBehavior)

\* (mutant) no timer is armed
ArmTimerNever(ts, id) == ts

\* execute, line 67: setTimeout(() => update(cacheKey, undefined), 5 * 1000)
ArmTimer(ts, id) == ts \cup {[owner |-> id, left |-> TimerSecs]}

\* ---- actions

\* (mutant) the cached record is run but the key is not cleared
RunFromCacheWithoutClear ==
    /\ UNCHANGED <<settingsVars, childVars, listVars,
                   executeVars, pageVars, uploadVars>>
    /\ ~activated
    /\ activated' = TRUE
    /\ IF globalState # {}
       THEN created' = RunPostFunctionCreateSteps(created, CHOOSE f \in globalState : TRUE,
                                                 "fromCache")
       ELSE UNCHANGED created
    /\ UNCHANGED <<globalState, heldFor, heldEpoch, timers, epoch, pc, ctx>>

\* extension activation in a fresh process: runPostFunctionCreateStepsFromCache
RunPostFunctionCreateStepsFromCache ==
    /\ UNCHANGED <<settingsVars, childVars, listVars,
                   executeVars, pageVars, uploadVars>>
    /\ ~activated
    /\ activated' = TRUE
    /\ IF globalState # {}
       THEN LET cachedFunc == CHOOSE f \in globalState : TRUE
            IN  /\ created' = RunPostFunctionCreateSteps(created, cachedFunc, "fromCache")
                /\ globalState' = {}
                /\ heldFor' = 0
                /\ heldEpoch' = 0
       ELSE UNCHANGED <<created, globalState, heldFor, heldEpoch>>
    /\ UNCHANGED <<timers, epoch, pc, ctx>>

\* createNewProject up to the end of wizard.prompt: the context is built and
\* the template list step has selected a template or was skipped
CreateNewProject ==
    /\ UNCHANGED <<settingsVars, childVars, listVars,
                   executeVars, pageVars, uploadVars>>
    /\ activated
    /\ pc = "idle"
    /\ \E openFolder \in BOOLEAN, setting \in OpenBehaviorSettings,
          template \in Templates \cup {NoTemplate} :
          ctx' = [openFolder |-> openFolder,
                  openBehavior |-> OpenBehaviorOf(openFolder, setting),
                  functionTemplate |-> template,
                  newFilePath |-> 0]
    /\ pc' = "execute"
    /\ UNCHANGED <<globalState, timers, epoch, activated, created, heldFor, heldEpoch>>

\* the wizard's execute phase skips the create step (shouldExecute is false)
SkipCreateStep ==
    /\ UNCHANGED <<settingsVars, childVars, listVars,
                   executeVars, pageVars, uploadVars>>
    /\ pc = "execute"
    /\ ~ShouldExecute(ctx)
    /\ pc' = "idle"
    /\ ctx' = NoCtx
    /\ UNCHANGED <<globalState, timers, epoch, activated, created, heldFor, heldEpoch>>

\* execute, lines 48-56: executeCore creates the file or throws
ExecuteCore ==
    /\ UNCHANGED <<settingsVars, childVars, listVars,
                   executeVars, pageVars, uploadVars>>
    /\ pc = "execute"
    /\ ShouldExecute(ctx)
    /\ \/ /\ Len(created) < MaxCreates
          /\ ctx' = [ctx EXCEPT !.newFilePath = Len(created) + 1]
          /\ created' = Append(created,
                               [openFolder |-> ctx.openFolder,
                                openBehavior |-> ctx.openBehavior,
                                completed |-> FALSE, stored |-> FALSE,
                                immediate |-> 0, fromCache |-> 0])
          /\ pc' = "bundle"
       \/ /\ pc' = "idle"
          /\ ctx' = NoCtx
          /\ UNCHANGED created
    /\ UNCHANGED <<globalState, timers, epoch, activated, heldFor, heldEpoch>>

\* execute, line 57: await this.shouldUseExtensionBundle(...)
ExecuteBundle ==
    /\ UNCHANGED <<settingsVars, childVars, listVars,
                   executeVars, pageVars, uploadVars>>
    /\ pc = "bundle"
    /\ \E runtime \in ProjectRuntimes, language \in ProjectLanguages \cup {Undefined},
          tasksFile \in ScanFiles, settingsFile \in ScanFiles :
          pc' = IF ShouldUseExtensionBundle(runtime, ctx.functionTemplate, language,
                                            tasksFile, settingsFile)
                THEN "verify" ELSE "cache"
    /\ UNCHANGED <<globalState, timers, epoch, activated, ctx, created, heldFor, heldEpoch>>

\* execute, line 58: await this.verifyExtensionBundle(...); a throw ends execute
ExecuteVerify ==
    /\ UNCHANGED <<settingsVars, childVars, listVars,
                   executeVars, pageVars, uploadVars>>
    /\ pc = "verify"
    /\ \E hostJson \in HostJsons, writeOk \in BOOLEAN :
          IF VerifyExtensionBundle(hostJson, writeOk).throws
          THEN pc' = "idle" /\ ctx' = NoCtx
          ELSE pc' = "cache" /\ UNCHANGED ctx
    /\ UNCHANGED <<globalState, timers, epoch, activated, created, heldFor, heldEpoch>>

\* execute, lines 61-70: the record is cached and a timer armed when the open
\* behaviour is set; the post-creation step is started
ExecuteCache ==
    /\ UNCHANGED <<settingsVars, childVars, listVars,
                   executeVars, pageVars, uploadVars>>
    /\ pc = "cache"
    /\ LET id == ctx.newFilePath
           cachedFunc == CachedFunction(ProjectPath, id, ctx.functionTemplate.isHttpTrigger)
           newState == IF ShouldCache(ctx) THEN {cachedFunc} ELSE globalState
           done == [created EXCEPT ![id].completed = TRUE,
                                   ![id].stored = newState # globalState]
       IN  /\ IF ShouldCache(ctx)
              THEN /\ globalState' = newState
                   /\ timers' = ArmTimer(timers, id)
                   /\ heldFor' = 0
                   /\ heldEpoch' = epoch
              ELSE UNCHANGED <<globalState, timers, heldFor, heldEpoch>>
           /\ created' = RunPostFunctionCreateSteps(done, cachedFunc, "immediate")
    /\ pc' = "idle"
    /\ ctx' = NoCtx
    /\ UNCHANGED <<epoch, activated>>

\* the callback of a due timer: globalState.update(cacheKey, undefined)
TimerFires ==
    /\ UNCHANGED <<settingsVars, childVars, listVars,
                   executeVars, pageVars, uploadVars>>
    /\ \E t \in timers :
          /\ t.left = 0
          /\ timers' = timers \ {t}
    /\ globalState' = {}
    /\ heldFor' = 0
    /\ heldEpoch' = 0
    /\ UNCHANGED <<epoch, activated, pc, ctx, created>>

\* one second passes; a due timer fires first
Tick ==
    /\ UNCHANGED <<settingsVars, childVars, listVars,
                   executeVars, pageVars, uploadVars>>
    /\ \A t \in timers : t.left > 0
    /\ timers' = {[t EXCEPT !.left = @ - 1] : t \in timers}
    /\ heldFor' = IF globalState # {} /\ heldFor <= TimerSecs THEN heldFor + 1 ELSE heldFor
    /\ UNCHANGED <<globalState, epoch, activated, pc, ctx, created, heldEpoch>>

\* the extension host restarts: timers and a running wizard are lost, the
\* durable store is kept
Restart ==
    /\ UNCHANGED <<settingsVars, childVars, listVars,
                   executeVars, pageVars, uploadVars>>
    /\ epoch < MaxRestarts
    /\ epoch' = epoch + 1
    /\ timers' = {}
    /\ activated' = FALSE
    /\ pc' = "idle"
    /\ ctx' = NoCtx
    /\ UNCHANGED <<globalState, created, heldFor, heldEpoch>>

\* the post-creation cache before the first activation
CacheIdle ==
    /\ globalState = {}
    /\ timers = {}
    /\ epoch = 0
    /\ activated = FALSE
    /\ pc = "idle"
    /\ ctx = NoCtx
    /\ created = <<>>
    /\ heldFor = 0
    /\ heldEpoch = 0

\* ================= FunctionCreateStepBase.ts, one call followed line by line
\* The functions of FunctionCreateStepBase.ts applied to any context, any
\* project files and any host.json, with every await a step of its own.

\* the languages a scan is followed for: the two the code names, one whose
\* name begins like one of them, and one other
ScanLanguages == {"JavaScript", "C#", "F#", "C#Script"}

NoScan == [runtime |-> Undefined, language |-> Undefined, tasksFile |-> Undefined,
           settingsFile |-> Undefined, useBundle |-> FALSE, read |-> FALSE]

NoVerify == [runs |-> 0, written |-> 0, throws |-> FALSE, wrote |-> FALSE]

NoPost == [inWorkspace |-> FALSE, exists |-> FALSE, openTextDocument |-> FALSE,
           opened |-> FALSE, thrown |-> FALSE, ran |-> FALSE]

ExCallEnded == exPc \in {"idle", "returned", "failed"}

\* (mutant) the file is opened whether or not it exists
PostOpensTextDocumentUnchecked(inWorkspace, exists) == inWorkspace

\* lines 128-132: getContainingWorkspace(func.projectPath) and then
\* await fse.pathExists(func.newFilePath) guard workspace.openTextDocument
PostOpensTextDocument(inWorkspace, exists) == inWorkspace /\ exists

\* lines 124-136, the body handed to callWithTelemetryAndErrorHandling: what it
\* found, whether it went on to open the file, whether the file came
\* up (openFails: openTextDocument or showTextDocument rejects);
\* callWithTelemetryAndErrorHandling rejects with nothing
RunPostBody(inWorkspace, exists, openFails) ==
    [inWorkspace |-> inWorkspace, exists |-> exists,
     openTextDocument |-> PostOpensTextDocument(inWorkspace, exists),
     opened |-> PostOpensTextDocument(inWorkspace, exists) /\ ~openFails,
     thrown |-> FALSE, ran |-> TRUE]

\* the wizard, or any other caller, calls execute(wizardContext)
CallExecute ==
    /\ UNCHANGED <<cacheVars, settingsVars, childVars, listVars, pageVars, uploadVars>>
    /\ ExCallEnded
    /\ exCalls < MaxExecutes
    /\ \E template \in Templates \cup {NoTemplate}, openBehavior \in OpenBehaviorSettings :
          exCtx' = [functionTemplate |-> template, openBehavior |-> openBehavior]
    /\ exCalls' = exCalls + 1
    /\ exTrace' = <<>>
    /\ exScan' = NoScan
    /\ exOut' = "none"
    /\ exTimers' = 0
    /\ exFiles' = 0
    /\ exPost' = NoPost
    /\ exPc' = "template"
    /\ UNCHANGED <<exHost, exVerify, exStore, exPosts>>

\* (mutant) execute goes on without a template
CheckTemplateSkipped ==
    /\ UNCHANGED <<cacheVars, settingsVars, childVars, listVars, pageVars, uploadVars>>
    /\ exPc = "template"
    /\ exTrace' = Append(exTrace, "template")
    /\ exPc' = "core"
    /\ UNCHANGED <<exCtx, exCalls, exScan, exHost, exVerify, exStore, exTimers,
                   exFiles, exPosts, exPost, exOut>>

\* line 48: nonNullProp(wizardContext, 'functionTemplate')
CheckTemplate ==
    /\ UNCHANGED <<cacheVars, settingsVars, childVars, listVars, pageVars, uploadVars>>
    /\ exPc = "template"
    /\ IF exCtx.functionTemplate = NoTemplate
       THEN /\ exOut' = "NonNullError"
            /\ exPc' = "failed"
            /\ UNCHANGED exTrace
       ELSE /\ exTrace' = Append(exTrace, "template")
            /\ exPc' = "core"
            /\ UNCHANGED exOut
    /\ UNCHANGED <<exCtx, exCalls, exScan, exHost, exVerify, exStore, exTimers,
                   exFiles, exPosts, exPost>>

\* line 56: const newFilePath = await this.executeCore(wizardContext)
CallExecuteCore ==
    /\ UNCHANGED <<cacheVars, settingsVars, childVars, listVars, pageVars, uploadVars>>
    /\ exPc = "core"
    /\ \E coreOk \in BOOLEAN :
          IF coreOk
          THEN /\ exFiles' = exFiles + 1
               /\ exTrace' = Append(exTrace, "executeCore")
               /\ exPc' = "bundle"
               /\ UNCHANGED exOut
          ELSE /\ exOut' = "CoreError"
               /\ exPc' = "failed"
               /\ UNCHANGED <<exFiles, exTrace>>
    /\ UNCHANGED <<exCtx, exCalls, exScan, exHost, exVerify, exStore, exTimers,
                   exPosts, exPost>>

\* line 57: if (await this.shouldUseExtensionBundle(wizardContext))
CallShouldUseExtensionBundle ==
    /\ UNCHANGED <<cacheVars, settingsVars, childVars, listVars, pageVars, uploadVars>>
    /\ exPc = "bundle"
    /\ \E runtime \in ProjectRuntimes, language \in ScanLanguages,
          tasksFile \in ScanFiles, settingsFile \in ScanFiles :
          LET useBundle == ShouldUseExtensionBundle(runtime, exCtx.functionTemplate,
                                                    language, tasksFile, settingsFile)
          IN  /\ exScan' = [runtime |-> runtime, language |-> language,
                            tasksFile |-> tasksFile, settingsFile |-> settingsFile,
                            useBundle |-> useBundle, read |-> TRUE]
              /\ exPc' = IF useBundle THEN "verify" ELSE "cache"
    /\ exTrace' = Append(exTrace, "shouldUseExtensionBundle")
    /\ UNCHANGED <<exCtx, exCalls, exHost, exVerify, exStore, exTimers, exFiles,
                   exPosts, exPost, exOut>>

\* line 58: await this.verifyExtensionBundle(wizardContext)
CallVerifyExtensionBundle ==
    /\ UNCHANGED <<cacheVars, settingsVars, childVars, listVars, pageVars, uploadVars>>
    /\ exPc = "verify"
    /\ \E writeOk \in BOOLEAN :
          LET r == VerifyExtensionBundle(exHost, writeOk)
          IN  /\ exHost' = r.file
              /\ exVerify' = [runs |-> exVerify.runs + 1,
                              written |-> exVerify.written + (IF r.wrote THEN 1 ELSE 0),
                              throws |-> r.throws, wrote |-> r.wrote]
              /\ IF r.throws
                 THEN /\ exOut' = "HostJsonError"
                      /\ exPc' = "failed"
                 ELSE /\ exPc' = "cache"
                      /\ UNCHANGED exOut
    /\ exTrace' = Append(exTrace, "verifyExtensionBundle")
    /\ exScan' = NoScan
    /\ UNCHANGED <<exCtx, exCalls, exStore, exTimers, exFiles, exPosts, exPost>>

\* lines 61-70: the record is stored and its timer armed when an open
\* behaviour is set; the post-creation step is started and execute returns
CacheAndStartPost ==
    /\ UNCHANGED <<cacheVars, settingsVars, childVars, listVars, pageVars, uploadVars>>
    /\ exPc = "cache"
    /\ LET cachedFunc == CachedFunction(ProjectPath, exCalls,
                                        exCtx.functionTemplate.isHttpTrigger)
       IN  /\ IF ShouldCache(exCtx)
              THEN /\ exStore' = {cachedFunc}
                   /\ exTimers' = exTimers + 1
                   /\ exTrace' = exTrace \o <<"store", "timer", "post">>
              ELSE /\ exTrace' = Append(exTrace, "post")
                   /\ UNCHANGED <<exStore, exTimers>>
           /\ exPosts' = exPosts + 1
    /\ exScan' = NoScan
    /\ exPc' = "returned"
    /\ UNCHANGED <<exCtx, exCalls, exHost, exVerify, exFiles, exPost, exOut>>

\* lines 28-37, called while no execute is running: read, start the
\* post-creation step, clear in the finally block
CallFromCache ==
    /\ UNCHANGED <<cacheVars, settingsVars, childVars, listVars, pageVars, uploadVars>>
    /\ ExCallEnded
    /\ exStore # {}
    /\ exPosts' = exPosts + 1
    /\ exStore' = {}
    /\ UNCHANGED <<exPc, exCtx, exCalls, exTrace, exScan, exHost, exVerify,
                   exTimers, exFiles, exPost, exOut>>

\* lines 124-136: the post-creation step runs on its own, after its caller
\* has gone on; what it finds is what is there when it runs
PostTaskRuns ==
    /\ UNCHANGED <<cacheVars, settingsVars, childVars, listVars, pageVars, uploadVars>>
    /\ exPosts > 0
    /\ exPosts' = exPosts - 1
    /\ \E inWorkspace \in BOOLEAN, exists \in BOOLEAN, openFails \in BOOLEAN :
          exPost' = RunPostBody(inWorkspace, exists, openFails)
    /\ UNCHANGED <<exPc, exCtx, exCalls, exTrace, exScan, exHost, exVerify,
                   exStore, exTimers, exFiles, exOut>>

ExecuteIdle ==
    /\ exPc = "idle"
    /\ exCtx = [functionTemplate |-> NoTemplate, openBehavior |-> Undefined]
    /\ exCalls = 0
    /\ exTrace = <<>>
    /\ exScan = NoScan
    /\ exHost = [parses |-> TRUE, version |-> "2.0", extensionBundle |-> NoBundle]
    /\ exVerify = NoVerify
    /\ exStore = {}
    /\ exTimers = 0
    /\ exFiles = 0
    /\ exPosts = 0
    /\ exPost = NoPost
    /\ exOut = "none"

\* ================================================ FunctionListStep (part_001)

\* TemplateFilter
Verified == "Verified"
Core == "Core"
All == "All"
TemplateFilters == {Verified, Core, All}

\* a template id is a sequence of pieces: the word httptrigger in some letter
\* case, a run of other letters, or a character that is no letter
HttpTriggerWords == {"HttpTrigger", "httptrigger"}
NonLetters == {"-", "."}
NoId == <<>>

\* a display name as localeCompare sees it: the rank of the name with letter
\* case ignored, and whether it is written with an upper-case initial
DisplayName(rank, upper) == [rank |-> rank, upper |-> upper]

HttpJs ==
    [id |-> <<"HttpTrigger", "-", "JavaScript">>, name |-> DisplayName(2, TRUE),
     isHttpTrigger |-> TRUE, tier |-> Verified,
     userPromptedSettings |-> <<"authLevel">>]
HttpDotnet ==
    [id |-> <<"Azure", ".", "Function", ".", "httptrigger">>,
     name |-> DisplayName(2, FALSE), isHttpTrigger |-> TRUE, tier |-> Verified,
     userPromptedSettings |-> <<"authLevel">>]
HttpWithParameters ==
    [id |-> <<"HttpTrigger", "WithParameters", "-", "JavaScript">>,
     name |-> DisplayName(3, TRUE), isHttpTrigger |-> TRUE, tier |-> Core,
     userPromptedSettings |-> <<"authLevel">>]
BlobJs ==
    [id |-> <<"Blob", "Trigger", "-", "JavaScript">>, name |-> DisplayName(1, TRUE),
     isHttpTrigger |-> FALSE, tier |-> Verified,
     userPromptedSettings |-> <<"connection", "path">>]
TimerJs ==
    [id |-> <<"Timer", "Trigger", "-", "JavaScript">>, name |-> DisplayName(5, TRUE),
     isHttpTrigger |-> FALSE, tier |-> Verified,
     userPromptedSettings |-> <<"schedule">>]
DurableJs ==
    [id |-> <<"Durable", "Functions", "Orchestrator">>, name |-> DisplayName(4, FALSE),
     isHttpTrigger |-> FALSE, tier |-> All,
     userPromptedSettings |-> <<>>]
Catalog == {HttpJs, HttpDotnet, HttpWithParameters, BlobJs, TimerJs, DurableJs}

\* provider.getTemplates(language, runtime, projectPath, templateFilter, ...):
\* the Verified templates are among the Core ones, and those among All
GetTemplates(templateFilter) ==
    CASE templateFilter = Verified -> {t \in Catalog : t.tier = Verified}
      [] templateFilter = Core -> {t \in Catalog : t.tier \in {Verified, Core}}
      [] OTHER -> Catalog

\* line 253: /httptrigger($|[^a-z])/i tested on an id
RegExpTest(id) ==
    \E i \in DOMAIN id :
        /\ id[i] \in HttpTriggerWords
        /\ (i = Len(id) \/ id[i + 1] \in NonLetters)

\* a.name.localeCompare(b.name): letter case decides only between names that
\* are equal otherwise, lower case first
LocaleCompare(a, b) ==
    IF a.rank < b.rank THEN -1
    ELSE IF a.rank > b.rank THEN 1
    ELSE IF a.upper = b.upper THEN 0
    ELSE IF b.upper THEN -1 ELSE 1

\* (mutant) the branch for an HTTP trigger on the right-hand side is missing
SortTemplatesLeftOnly(a, b, templateFilter) ==
    IF templateFilter = Verified /\ RegExpTest(a.id) THEN -1
    ELSE LocaleCompare(a.name, b.name)

\* lines 251-262
SortTemplates(a, b, templateFilter) ==
    IF templateFilter = Verified /\ RegExpTest(a.id) THEN -1
    ELSE IF templateFilter = Verified /\ RegExpTest(b.id) THEN 1
    ELSE LocaleCompare(a.name, b.name)

\* line 205: templates.sort(...): every order of the templates in which no
\* template stands before one that sortTemplates puts in front of it (the
\* order among templates the comparison does not separate is the engine's)
RECURSIVE SortedOrders(_, _)
SortedOrders(templates, templateFilter) ==
    IF templates = {} THEN {<<>>}
    ELSE UNION {{<<a>> \o rest :
                    rest \in SortedOrders(templates \ {a}, templateFilter)} :
                a \in {x \in templates :
                         \A b \in templates \ {x} :
                            SortTemplates(x, b, templateFilter) <= 0}}

\* the entries of the quick pick
TemplatePick(t) == [data |-> "template", template |-> t]
SkipForNowPick == [data |-> "skipForNow", template |-> NoTemplate]
ChangeFilterPick == [data |-> "changeFilter", template |-> NoTemplate]

\* line 207: templates.map(...)
RECURSIVE MapPicks(_)
MapPicks(templates) ==
    IF templates = <<>> THEN <<>>
    ELSE <<TemplatePick(Head(templates))>> \o MapPicks(Tail(templates))

\* (mutant) 'skip for now' is offered in every wizard
UnshiftSkipAlways(picks, isProjectWizard) == <<SkipForNowPick>> \o picks

\* lines 209-215
UnshiftSkip(picks, isProjectWizard) ==
    IF isProjectWizard THEN <<SkipForNowPick>> \o picks ELSE picks

\* lines 207-224 of getPicks, on the sorted templates
GetPicks(sorted, isProjectWizard) ==
    Append(UnshiftSkip(MapPicks(sorted), isProjectWizard), ChangeFilterPick)

\* (mutant) the new filter is saved whatever the wizard
CanUpdateSettingAlways(isProjectWizard, openBehavior) == TRUE

\* line 184
CanUpdateSetting(isProjectWizard, openBehavior) ==
    ~isProjectWizard \/ openBehavior = "AlreadyOpen"

\* ---- getSubWizard

\* keys under which callers pass trigger settings, and key.toLowerCase()
TriggerKeys == {"AuthLevel", "authLevel", "Schedule"}
ToLowerCase(key) ==
    CASE key \in {"AuthLevel", "authLevel", "authlevel"} -> "authlevel"
      [] key \in {"Schedule", "schedule"} -> "schedule"
      [] key \in {"NotFound", "NOTFOUND", "notfound"} -> "notfound"
      [] key = "NotFoundError" -> "notfounderror"
      [] key = "Forbidden" -> "forbidden"
      [] OTHER -> key
TriggerValues == <<"anonymous", "function", "admin">>

\* the trigger settings a caller can pass: an object's keys are distinct and
\* are enumerated in the order they were added
TriggerSettingsOfLen(n) ==
    {ts \in [1..n -> [key : TriggerKeys, value : {TriggerValues[i] : i \in 1..n}]] :
        /\ \A i \in 1..n : ts[i].value = TriggerValues[i]
        /\ \A i, j \in 1..n : i # j => ts[i].key # ts[j].key}
TriggerSettings == UNION {TriggerSettingsOfLen(n) : n \in 0..MaxTriggerSettings}

\* (mutant) the settings are copied under the keys as supplied
CopyTriggerSettingsAsIs(settings, triggerSettings) ==
    [k \in DOMAIN settings \cup {triggerSettings[i].key : i \in DOMAIN triggerSettings} |->
        IF \E i \in DOMAIN triggerSettings : triggerSettings[i].key = k
        THEN LET i == CHOOSE j \in DOMAIN triggerSettings : triggerSettings[j].key = k
             IN  triggerSettings[i].value
        ELSE settings[k]]

\* lines 134-136: for (const key of Object.keys(this._triggerSettings))
\*                    wizardContext[key.toLowerCase()] = this._triggerSettings[key]
RECURSIVE CopyTriggerSettings(_, _)
CopyTriggerSettings(settings, triggerSettings) ==
    IF triggerSettings = <<>> THEN settings
    ELSE CopyTriggerSettings(
            (ToLowerCase(Head(triggerSettings).key) :> Head(triggerSettings).value)
                @@ settings,
            Tail(triggerSettings))

\* lines 120-131
NamePromptSteps(language) ==
    CASE language = "Java" -> <<"JavaPackageNameStep", "JavaFunctionNameStep">>
      [] language \in {"C#", "F#"} -> <<"DotnetFunctionNameStep", "DotnetNamespaceStep">>
      [] OTHER -> <<"ScriptFunctionNameStep">>

\* (mutant) TypeScript falls through to the script create step
CreateStepForNoTypeScript(language) ==
    CASE language = "Java" -> "JavaFunctionCreateStep"
      [] language \in {"C#", "F#"} -> "DotnetFunctionCreateStep"
      [] OTHER -> "ScriptFunctionCreateStep"

\* lines 141-155
CreateStepFor(language) ==
    CASE language = "Java" -> "JavaFunctionCreateStep"
      [] language \in {"C#", "F#"} -> "DotnetFunctionCreateStep"
      [] language = "TypeScript" -> "TypeScriptFunctionCreateStep"
      [] OTHER -> "ScriptFunctionCreateStep"

CreateSteps == {"JavaFunctionCreateStep", "DotnetFunctionCreateStep",
                "TypeScriptFunctionCreateStep", "ScriptFunctionCreateStep"}

\* lines 143 and 147: the create steps whose createStep validates a tool first
ValidatesTool(language) == language \in {"Java", "C#", "F#"}

\* line 138: one prompt step per setting the template asks the user for
AddBindingSettingSteps(userPromptedSettings, steps) == steps \o userPromptedSettings

\* (mutant) an HTTP trigger gets the storage steps too
NeedsStorageAnyTrigger(template, storage) == ~Truthy(storage)

\* line 157
NeedsStorage(template, storage) == ~template.isHttpTrigger /\ ~Truthy(storage)

NoSubWizard == [returned |-> FALSE, none |-> TRUE, promptSteps |-> <<>>,
                executeSteps |-> <<>>, storage |-> Undefined]

\* line 118: if (template)
HasTemplate(c) == c.functionTemplate # NoTemplate

\* (mutant) a script wizard is returned whether or not a template is selected
SubWizardOfAnyContext(c, storage) ==
    [returned |-> TRUE, none |-> FALSE,
     promptSteps |-> NamePromptSteps(c.language),
     executeSteps |-> <<CreateStepFor(c.language)>>,
     storage |-> storage]

\* lines 116-167, the value returned
SubWizardOf(c, storage) ==
    IF HasTemplate(c)
    THEN LET needs == NeedsStorage(c.functionTemplate, storage)
         IN  [returned |-> TRUE, none |-> FALSE,
              promptSteps |->
                  AddBindingSettingSteps(c.functionTemplate.userPromptedSettings,
                                         NamePromptSteps(c.language))
                  \o (IF needs THEN <<"AzureWebJobsStoragePromptStep">> ELSE <<>>),
              executeSteps |->
                  <<CreateStepFor(c.language)>>
                  \o (IF needs THEN <<"AzureWebJobsStorageExecuteStep">> ELSE <<>>),
              storage |-> storage]
    ELSE [NoSubWizard EXCEPT !.returned = TRUE]

\* ---- actions

NoListCtx == [language |-> Undefined, runtime |-> Undefined,
              functionTemplate |-> NoTemplate, openBehavior |-> Undefined,
              settings |-> <<>>, templateId |-> Undefined,
              templateFilter |-> Undefined]
NoStep == [isProjectWizard |-> FALSE, triggerSettings |-> <<>>]
NoFile == [created |-> FALSE, stored |-> FALSE]

\* create has not been called
NoCreate == [templateId |-> NoId, before |-> NoTemplate, queried |-> Undefined,
             error |-> "none"]

\* an id that differs from HttpJs.id in letter case only
HttpJsLowerCaseId == <<"httptrigger", "-", "JavaScript">>

\* (mutant) any template of the catalog is taken for the one asked for
FindTemplateAny(templates, templateId) == templates

\* line 105: templates.find(t => t.id === options.templateId)
FindTemplate(templates, templateId) == {t \in templates : t.id = templateId}

\* FunctionListStep.create, lines 99-114, on the context the caller built
ListCreate ==
    /\ UNCHANGED <<cacheVars, settingsVars, childVars,
                   executeVars, pageVars, uploadVars>>
    /\ lsPc = "idle"
    /\ \E language \in ProjectLanguages \cup {Undefined},
          runtime \in {v2, Undefined},
          openBehavior \in {Undefined, "AlreadyOpen", "DontOpen"},
          preset \in {NoTemplate, TimerJs},
          templateId \in {NoId, HttpJs.id, HttpJsLowerCaseId, <<"Unknown">>},
          isProjectWizard \in BOOLEAN,
          triggerSettings \in TriggerSettings :
          LET c == [NoListCtx EXCEPT !.language = language, !.runtime = runtime,
                                     !.openBehavior = openBehavior,
                                     !.functionTemplate = preset]
              found == FindTemplate(GetTemplates(All), templateId)
              asked == [NoCreate EXCEPT !.templateId = templateId, !.before = preset]
          IN  IF templateId = NoId
              THEN /\ lsCtx' = c
                   /\ lsStep' = [isProjectWizard |-> isProjectWizard,
                                 triggerSettings |-> triggerSettings]
                   /\ lsCreate' = asked
                   /\ lsPc' = "created"
              ELSE IF language = Undefined \/ runtime = Undefined
              THEN /\ lsCtx' = c
                   /\ lsStep' = NoStep
                   /\ lsCreate' = [asked EXCEPT !.error = "NonNullError"]
                   /\ lsPc' = "failed"
              ELSE IF found = {}
              THEN /\ lsCtx' = c
                   /\ lsStep' = NoStep
                   /\ lsCreate' = [asked EXCEPT !.queried = All,
                                                !.error = "Could not find template"]
                   /\ lsPc' = "failed"
              ELSE /\ lsCtx' = [c EXCEPT !.functionTemplate = CHOOSE t \in found : TRUE]
                   /\ lsStep' = [isProjectWizard |-> isProjectWizard,
                                 triggerSettings |-> triggerSettings]
                   /\ lsCreate' = [asked EXCEPT !.queried = All]
                   /\ lsPc' = "created"
    /\ UNCHANGED <<lsFilter, lsSetting, lsPicks, lsShown, lsSub, lsFile>>

\* lines 195-197 and 171: the wizard calls prompt when shouldPrompt says so;
\* prompt starts from the workspace's filter or Verified
PromptBegin ==
    /\ UNCHANGED <<cacheVars, settingsVars, childVars,
                   executeVars, pageVars, uploadVars>>
    /\ lsPc = "created"
    /\ lsCtx.functionTemplate = NoTemplate
    /\ lsFilter' = IF Truthy(lsSetting) THEN lsSetting ELSE Verified
    /\ lsPc' = "loop"
    /\ UNCHANGED <<lsCreate, lsStep, lsCtx, lsSetting, lsPicks, lsShown, lsSub, lsFile>>

\* lines 173-177 and 199-225: the loop goes on, the picks are computed and
\* shown
ShowQuickPick ==
    /\ UNCHANGED <<cacheVars, settingsVars, childVars,
                   executeVars, pageVars, uploadVars>>
    /\ lsPc = "loop"
    /\ lsCtx.functionTemplate = NoTemplate
    /\ IF lsCtx.language = Undefined \/ lsCtx.runtime = Undefined
       THEN /\ lsPc' = "failed"
            /\ UNCHANGED <<lsPicks, lsShown>>
       ELSE /\ \E sorted \in SortedOrders(GetTemplates(lsFilter), lsFilter) :
                  lsPicks' = GetPicks(sorted, lsStep.isProjectWizard)
            /\ lsShown' = lsFilter
            /\ lsPc' = "picking"
    /\ UNCHANGED <<lsCreate, lsStep, lsCtx, lsFilter, lsSetting, lsSub, lsFile>>

\* line 188: the user picked a template
PickTemplate ==
    /\ UNCHANGED <<cacheVars, settingsVars, childVars,
                   executeVars, pageVars, uploadVars>>
    /\ lsPc = "picking"
    /\ \E i \in DOMAIN lsPicks :
          /\ lsPicks[i].data = "template"
          /\ lsCtx' = [lsCtx EXCEPT !.functionTemplate = lsPicks[i].template]
    /\ lsPc' = "loop"
    /\ UNCHANGED <<lsCreate, lsStep, lsFilter, lsSetting, lsPicks, lsShown, lsSub, lsFile>>

\* (mutant) 'skip for now' is recorded but the loop goes on
PickSkipForNowNoBreak ==
    /\ UNCHANGED <<cacheVars, settingsVars, childVars,
                   executeVars, pageVars, uploadVars>>
    /\ lsPc = "picking"
    /\ \E i \in DOMAIN lsPicks : lsPicks[i].data = "skipForNow"
    /\ lsCtx' = [lsCtx EXCEPT !.templateId = "skipForNow"]
    /\ lsPc' = "loop"
    /\ UNCHANGED <<lsCreate, lsStep, lsFilter, lsSetting, lsPicks, lsShown, lsSub, lsFile>>

\* lines 178-180: the user picked 'skip for now'
PickSkipForNow ==
    /\ UNCHANGED <<cacheVars, settingsVars, childVars,
                   executeVars, pageVars, uploadVars>>
    /\ lsPc = "picking"
    /\ \E i \in DOMAIN lsPicks : lsPicks[i].data = "skipForNow"
    /\ lsCtx' = [lsCtx EXCEPT !.templateId = "skipForNow"]
    /\ lsPc' = "break"
    /\ UNCHANGED <<lsCreate, lsStep, lsFilter, lsSetting, lsPicks, lsShown, lsSub, lsFile>>

\* lines 181-182: the user picked 'change filter'; the tiers are shown
PickChangeFilter ==
    /\ UNCHANGED <<cacheVars, settingsVars, childVars,
                   executeVars, pageVars, uploadVars>>
    /\ lsPc = "picking"
    /\ \E i \in DOMAIN lsPicks : lsPicks[i].data = "changeFilter"
    /\ lsPc' = "filtering"
    /\ UNCHANGED <<lsCreate, lsStep, lsCtx, lsFilter, lsSetting, lsPicks, lsShown, lsSub, lsFile>>

\* lines 177 and 244: the user dismissed a quick pick, showQuickPick rejects
\* and prompt throws
PickCancel ==
    /\ UNCHANGED <<cacheVars, settingsVars, childVars,
                   executeVars, pageVars, uploadVars>>
    /\ lsPc \in {"picking", "filtering"}
    /\ lsPc' = "failed"
    /\ UNCHANGED <<lsCreate, lsStep, lsCtx, lsFilter, lsSetting, lsPicks, lsShown, lsSub, lsFile>>

\* lines 182-186 and 236-245: the user chose a tier; it is saved when the
\* project is open in a workspace
ChooseFilter ==
    /\ UNCHANGED <<cacheVars, settingsVars, childVars,
                   executeVars, pageVars, uploadVars>>
    /\ lsPc = "filtering"
    /\ \E tier \in TemplateFilters :
          /\ lsFilter' = tier
          /\ lsSetting' = IF CanUpdateSetting(lsStep.isProjectWizard, lsCtx.openBehavior)
                          THEN tier ELSE lsSetting
    /\ lsPc' = "loop"
    /\ UNCHANGED <<lsCreate, lsStep, lsCtx, lsPicks, lsShown, lsSub, lsFile>>

\* lines 173 and 192: the loop ends, the filter in use is recorded
PromptReturn ==
    /\ UNCHANGED <<cacheVars, settingsVars, childVars,
                   executeVars, pageVars, uploadVars>>
    /\ \/ lsPc = "break"
       \/ lsPc = "loop" /\ lsCtx.functionTemplate # NoTemplate
    /\ lsCtx' = [lsCtx EXCEPT !.templateFilter = lsFilter]
    /\ lsPc' = "prompted"
    /\ UNCHANGED <<lsCreate, lsStep, lsFilter, lsSetting, lsPicks, lsShown, lsSub, lsFile>>

\* lines 116-167: the wizard asks the step for its sub-wizard, after prompt or
\* at once when shouldPrompt was false
GetSubWizard ==
    /\ UNCHANGED <<cacheVars, settingsVars, childVars,
                   executeVars, pageVars, uploadVars>>
    /\ \/ lsPc = "prompted"
       \/ lsPc = "created" /\ lsCtx.functionTemplate # NoTemplate
    /\ \E storage \in {Undefined, "UseDevelopmentStorage=true"}, toolOk \in BOOLEAN :
          LET copied == IF HasTemplate(lsCtx)
                        THEN [lsCtx EXCEPT !.settings =
                                 CopyTriggerSettings(@, lsStep.triggerSettings)]
                        ELSE lsCtx
          IN  /\ lsCtx' = copied
              /\ IF HasTemplate(lsCtx) /\ ValidatesTool(lsCtx.language) /\ ~toolOk
                 THEN lsSub' = lsSub /\ lsPc' = "failed"
                 ELSE lsSub' = SubWizardOf(copied, storage) /\ lsPc' = "sub"
    /\ UNCHANGED <<lsCreate, lsStep, lsFilter, lsSetting, lsPicks, lsShown, lsFile>>

\* the wizard's execute phase: the create step of the sub-wizard runs when its
\* shouldExecute allows (FunctionCreateStepBase, lines 90-92), creates the
\* function file and caches its record when the open behaviour is set (line 63)
ListExecute ==
    /\ UNCHANGED <<cacheVars, settingsVars, childVars,
                   executeVars, pageVars, uploadVars>>
    /\ lsPc = "sub"
    /\ \E ok \in BOOLEAN :
          LET queued == \E i \in DOMAIN lsSub.executeSteps :
                            lsSub.executeSteps[i] \in CreateSteps
              runs == queued /\ ShouldExecute(lsCtx)
          IN  IF runs /\ ~ok
              THEN lsFile' = lsFile /\ lsPc' = "failed"
              ELSE /\ lsFile' = [created |-> runs, stored |-> runs /\ ShouldCache(lsCtx)]
                   /\ lsPc' = "executed"
    /\ UNCHANGED <<lsCreate, lsStep, lsCtx, lsFilter, lsSetting, lsPicks, lsShown, lsSub>>

\* no template list step has been created
ListIdle ==
    /\ lsPc = "idle"
    /\ lsStep = NoStep
    /\ lsCtx = NoListCtx
    /\ lsFilter = Verified
    /\ lsSetting = Undefined
    /\ lsPicks = <<>>
    /\ lsShown = Undefined
    /\ lsSub = NoSubWizard
    /\ lsFile = NoFile
    /\ lsCreate = NoCreate

\* ====================== FunctionAppProvider.loadMoreChildrenImpl (part_000)

\* the links a page of web apps can carry to the next page
Links == {"page2", "page3"}

\* the sites of a page, each a function app or not
SiteLists == {<<>>, <<[name |-> "fa1", isFunctionApp |-> TRUE]>>,
              <<[name |-> "web1", isFunctionApp |-> FALSE],
                [name |-> "fa2", isFunctionApp |-> TRUE]>>}

\* WebAppCollection
Pages == [sites : SiteLists, nextLink : Links \cup {Undefined}]

\* parseError(error).errorType of the errors the listing can throw
ErrorTypes == {"NotFound", "notfound", "NOTFOUND", "NotFoundError", "Forbidden"}

\* line 24-26
HasMoreChildrenImpl == pgNextLink # Undefined

\* (mutant) the error type is compared as it is spelled
IsNotFoundExact(errorType) == errorType = "notfound"

\* line 39: parseError(error).errorType.toLowerCase() === 'notfound'
IsNotFound(errorType) == ToLowerCase(errorType) = "notfound"

\* (mutant) the first page is requested whatever link is stored
RequestFirstPage(nextLink) == [op |-> "list", link |-> Undefined]

\* lines 36-38: webApps.list() without a stored link, webApps.listNext(link)
\* with one
Request(nextLink) ==
    IF nextLink = Undefined
    THEN [op |-> "list", link |-> Undefined]
    ELSE [op |-> "listNext", link |-> nextLink]

\* lines 52-66: a tree item for every site that is a function app
CreateTreeItems(sites) == SelectSeq(sites, LAMBDA site : site.isFunctionApp)

NoLoad == [clearCache |-> FALSE, before |-> Undefined,
           request |-> [op |-> Undefined, link |-> Undefined],
           outcome |-> "none", errorType |-> Undefined, thrown |-> Undefined,
           items |-> <<>>]

\* no listing has succeeded yet
NoListing == [listed |-> FALSE, nextLink |-> Undefined, reset |-> FALSE]

\* lines 28-38: loadMoreChildrenImpl(clearCache) up to the request it awaits
LoadMoreChildrenStart ==
    /\ UNCHANGED <<cacheVars, settingsVars, childVars, listVars, executeVars, uploadVars>>
    /\ pgLast.outcome # "pending"
    /\ pgCalls < MaxLoads
    /\ \E clearCache \in BOOLEAN :
          LET link == IF clearCache THEN Undefined ELSE pgNextLink
          IN  /\ pgNextLink' = link
              /\ pgLast' = [NoLoad EXCEPT !.clearCache = clearCache,
                                          !.before = pgNextLink,
                                          !.request = Request(link),
                                          !.outcome = "pending"]
              /\ pgListed' = [pgListed EXCEPT !.reset = @ \/ clearCache]
    /\ pgCalls' = pgCalls + 1

\* lines 38-66: the request is answered with a page or fails
LoadMoreChildrenEnd ==
    /\ UNCHANGED <<cacheVars, settingsVars, childVars, listVars, executeVars, uploadVars>>
    /\ pgLast.outcome = "pending"
    /\ \/ \E webAppCollection \in Pages :
            /\ pgNextLink' = webAppCollection.nextLink
            /\ pgListed' = [listed |-> TRUE, nextLink |-> webAppCollection.nextLink,
                            reset |-> FALSE]
            /\ pgLast' = [pgLast EXCEPT !.outcome = "returned",
                                        !.items = CreateTreeItems(webAppCollection.sites)]
       \/ \E errorType \in ErrorTypes :
            /\ pgLast' = IF IsNotFound(errorType)
                         THEN [pgLast EXCEPT !.outcome = "returned",
                                             !.errorType = errorType]
                         ELSE [pgLast EXCEPT !.outcome = "thrown",
                                             !.errorType = errorType,
                                             !.thrown = errorType]
            /\ UNCHANGED <<pgNextLink, pgListed>>
    /\ UNCHANGED pgCalls

PageIdle ==
    /\ pgNextLink = Undefined
    /\ pgLast = NoLoad
    /\ pgListed = NoListing
    /\ pgCalls = 0

\* ================================================ uploadAppSettings (part_001)

\* ILocalSettingsJson as fse.readJson returns it: IsEncrypted, and Values
\* missing, empty or with settings
LocalSettingsJsons == [IsEncrypted : BOOLEAN, Values : {Undefined, "{}", "settings"}]

NoLocalSettings == [IsEncrypted |-> FALSE, Values |-> Undefined]

\* StringDictionary as listApplicationSettings returns it
RemoteProperties == {Undefined, "{}", "settings"}

NoRemote == [properties |-> Undefined, listed |-> FALSE, updated |-> FALSE]

UploadCall(call, ok) == [call |-> call, ok |-> ok]

\* the call ends with the error thrown
UploadFails(error) == upPc' = "failed" /\ upOut' = error

\* lines 19-33: the settings file and the node are chosen (the user may
\* cancel), the file is read
UploadStart ==
    /\ UNCHANGED <<cacheVars, settingsVars, childVars, listVars, executeVars, pageVars>>
    /\ upPc = "idle"
    /\ \/ /\ UploadFails("UserCancelledError")
          /\ UNCHANGED <<upFile, upLocal, upTrace>>
       \/ /\ UploadFails("ReadError")
          /\ upTrace' = Append(upTrace, UploadCall("readJson", FALSE))
          /\ UNCHANGED <<upFile, upLocal>>
       \/ \E localSettings \in LocalSettingsJsons :
            /\ upFile' = localSettings
            /\ upLocal' = localSettings
            /\ upTrace' = Append(upTrace, UploadCall("readJson", TRUE))
            /\ upPc' = IF localSettings.IsEncrypted THEN "decrypt" ELSE "values"
            /\ UNCHANGED upOut
    /\ UNCHANGED upRemote

\* line 35: await decryptLocalSettings(localSettingsUri), outside the try
DecryptLocalSettings ==
    /\ UNCHANGED <<cacheVars, settingsVars, childVars, listVars, executeVars, pageVars>>
    /\ upPc = "decrypt"
    /\ \E ok \in BOOLEAN :
          /\ upTrace' = Append(upTrace, UploadCall("decryptLocalSettings", ok))
          /\ IF ok THEN upPc' = "reread" /\ UNCHANGED upOut
                   ELSE UploadFails("DecryptError")
    /\ UNCHANGED <<upFile, upLocal, upRemote>>

\* (mutant) a failed re-read ends the call at once
RereadWithoutFinally ==
    /\ UNCHANGED <<cacheVars, settingsVars, childVars, listVars, executeVars, pageVars>>
    /\ upPc = "reread"
    /\ \/ /\ upTrace' = Append(upTrace, UploadCall("readJson", FALSE))
          /\ UploadFails("ReadError")
          /\ UNCHANGED upLocal
       \/ \E localSettings \in LocalSettingsJsons :
            /\ upLocal' = localSettings
            /\ upTrace' = Append(upTrace, UploadCall("readJson", TRUE))
            /\ upPc' = "encrypt"
            /\ UNCHANGED upOut
    /\ UNCHANGED <<upFile, upRemote>>

\* lines 36-38: the file is read again inside the try; a failure is held
\* while the finally block runs
RereadLocalSettings ==
    /\ UNCHANGED <<cacheVars, settingsVars, childVars, listVars, executeVars, pageVars>>
    /\ upPc = "reread"
    /\ \/ /\ upTrace' = Append(upTrace, UploadCall("readJson", FALSE))
          /\ upOut' = "ReadError"
          /\ UNCHANGED upLocal
       \/ \E localSettings \in LocalSettingsJsons :
            /\ upLocal' = localSettings
            /\ upTrace' = Append(upTrace, UploadCall("readJson", TRUE))
            /\ UNCHANGED upOut
    /\ upPc' = "encrypt"
    /\ UNCHANGED <<upFile, upRemote>>

\* lines 38-40: finally { await encryptLocalSettings(localSettingsUri) }; its
\* own error replaces the one held, a held error is thrown after it
EncryptLocalSettings ==
    /\ UNCHANGED <<cacheVars, settingsVars, childVars, listVars, executeVars, pageVars>>
    /\ upPc = "encrypt"
    /\ \E ok \in BOOLEAN :
          /\ upTrace' = Append(upTrace, UploadCall("encryptLocalSettings", ok))
          /\ IF ~ok THEN UploadFails("EncryptError")
             ELSE IF upOut # "none" THEN upPc' = "failed" /\ UNCHANGED upOut
             ELSE upPc' = "values" /\ UNCHANGED upOut
    /\ UNCHANGED <<upFile, upLocal, upRemote>>

\* lines 43-47 and 52-54: with Values the remote settings are listed, without
\* them the call throws 'No settings found'
ListApplicationSettings ==
    /\ UNCHANGED <<cacheVars, settingsVars, childVars, listVars, executeVars, pageVars>>
    /\ upPc = "values"
    /\ IF Truthy(upLocal.Values)
       THEN \/ /\ upTrace' = Append(upTrace, UploadCall("listApplicationSettings", FALSE))
               /\ UploadFails("ListError")
               /\ UNCHANGED upRemote
            \/ \E properties \in RemoteProperties :
                 /\ upRemote' = [properties |-> IF properties = Undefined
                                                THEN "{}" ELSE properties,
                                 listed |-> TRUE, updated |-> FALSE]
                 /\ upTrace' = Append(upTrace, UploadCall("listApplicationSettings", TRUE))
                 /\ upPc' = "confirm"
                 /\ UNCHANGED upOut
       ELSE /\ UploadFails("No settings found")
            /\ UNCHANGED <<upTrace, upRemote>>
    /\ UNCHANGED <<upFile, upLocal>>

\* line 49: await confirmOverwriteSettings(...): it completes with the local
\* values put over the remote ones, or throws (the user cancels)
ConfirmOverwriteSettings ==
    /\ UNCHANGED <<cacheVars, settingsVars, childVars, listVars, executeVars, pageVars>>
    /\ upPc = "confirm"
    /\ \E ok \in BOOLEAN :
          /\ upTrace' = Append(upTrace, UploadCall("confirmOverwriteSettings", ok))
          /\ IF ok
             THEN /\ upRemote' = [upRemote EXCEPT !.properties = "settings"]
                  /\ upPc' = "update"
                  /\ UNCHANGED upOut
             ELSE /\ UploadFails("UserCancelledError")
                  /\ UNCHANGED upRemote
    /\ UNCHANGED <<upFile, upLocal>>

\* line 51: await client.updateApplicationSettings(remoteSettings)
UpdateApplicationSettings ==
    /\ UNCHANGED <<cacheVars, settingsVars, childVars, listVars, executeVars, pageVars>>
    /\ upPc = "update"
    /\ \E ok \in BOOLEAN :
          /\ upTrace' = Append(upTrace, UploadCall("updateApplicationSettings", ok))
          /\ IF ok
             THEN /\ upRemote' = [upRemote EXCEPT !.updated = TRUE]
                  /\ upPc' = "done"
                  /\ upOut' = "returned"
             ELSE /\ UploadFails("UpdateError")
                  /\ UNCHANGED upRemote
    /\ UNCHANGED <<upFile, upLocal>>

UploadIdle ==
    /\ upPc = "idle"
    /\ upFile = NoLocalSettings
    /\ upLocal = NoLocalSettings
    /\ upRemote = NoRemote
    /\ upTrace = <<>>
    /\ upOut = "none"

\* ================================================================ claims

Files == DOMAIN created

\* ---- C1
\* C1 as stated: a record that execute stored is gone from the durable store
\* 5 seconds after the store, in every execution, restarts included.
C1_ClearedWithin5sAlways ==
    globalState # {} => heldFor <= TimerSecs

\* C1, amended: while the process that stored the record has not restarted, the
\* timer armed with the record is pending and falls due exactly TimerSecs
\* seconds after the store, so the record is not held past those 5 seconds.
C1_ClearedWithin5sUnlessRestarted ==
    (globalState # {} /\ heldEpoch = epoch) =>
        /\ heldFor <= TimerSecs
        /\ \E t \in timers :
              /\ \E f \in globalState : t.owner = f.newFilePath
              /\ t.left = TimerSecs - heldFor

\* C1 witness: without any restart a stored record was never read from the
\* cache and the store is empty again: its timer cleared it.
C1_TimerClearedStore ==
    /\ epoch = 0
    /\ globalState = {}
    /\ \E i \in Files : created[i].stored /\ created[i].fromCache = 0
    /\ \A i \in Files : \A t \in timers : t.owner # i

\* ---- C2
\* C2 as stated: for every file of a completed execute the post-creation step
\* runs exactly once, immediately or from the cache, never both.
C2_PostStepExactlyOnce ==
    \A i \in Files :
        created[i].completed => created[i].immediate + created[i].fromCache = 1

\* C2, amended: for every file of a completed execute the post-creation step is
\* run once immediately by execute, and at most once more from the cache, the
\* latter only when the open behaviour was set; it is never run before execute
\* completes.
C2_PostStepOnceOrTwice ==
    \A i \in Files :
        /\ created[i].completed =>
              /\ created[i].immediate = 1
              /\ created[i].fromCache <= 1
              /\ created[i].fromCache = 1 => Truthy(created[i].openBehavior)
        /\ ~created[i].completed =>
              created[i].immediate = 0 /\ created[i].fromCache = 0

\* C2 witness: a file whose post-creation step ran immediately and again from
\* the cache after a restart.
C2_RanTwice ==
    \E i \in Files :
        created[i].completed /\ created[i].immediate = 1 /\ created[i].fromCache = 1

\* ---- C3
\* the step in which execute passes its lines 61-70 for file i
CompletesNow(i) == ~created[i].completed /\ created'[i].completed

\* after that step the store holds the record of file i and its timer is armed
CachedAndArmed(i) ==
    /\ \E f \in globalState' : f.newFilePath = i /\ f.projectPath = ProjectPath
    /\ Cardinality(globalState') = 1
    /\ timers' = timers \cup {[owner |-> i, left |-> TimerSecs]}

\* C3 as stated: execute takes exactly one of two paths: a set open behaviour
\* caches the record, arms the timer and does not run the post-creation step;
\* an empty one runs the post-creation step and leaves store and timers alone.
C3_ExactlyOnePath ==
    [][\A i \in Files :
          CompletesNow(i) =>
              IF Truthy(created[i].openBehavior)
              THEN CachedAndArmed(i) /\ created'[i].immediate = 0
              ELSE created'[i].immediate = 1 /\ UNCHANGED <<globalState, timers>>]_vars

\* C3, amended: when execute reaches its last lines the post-creation step is
\* run immediately in both cases; before that, a set open behaviour caches the
\* record and arms the 5-second timer, an empty one leaves store and timers
\* unchanged.
C3_CacheThenAlwaysRun ==
    [][\A i \in Files :
          CompletesNow(i) =>
              /\ created'[i].immediate = 1
              /\ created'[i].fromCache = 0
              /\ IF Truthy(created[i].openBehavior)
                 THEN CachedAndArmed(i)
                 ELSE UNCHANGED <<globalState, timers>>]_vars

\* C3 witness: execute has just cached the record of a file, armed its timer
\* and run the post-creation step.
C3_CachedAndRun ==
    \E i \in Files :
        /\ created[i].completed /\ Truthy(created[i].openBehavior)
        /\ created[i].immediate = 1
        /\ \E f \in globalState : f.newFilePath = i
        /\ [owner |-> i, left |-> TimerSecs] \in timers

\* ---- C4
\* C4 as stated: in a wizard run started with openFolder = false the create
\* step writes no record to the durable store.
C4_NoRecordWhenDontOpen ==
    \A i \in Files :
        (created[i].completed /\ ~created[i].openFolder) => ~created[i].stored

\* C4, amended: the record is written exactly when the open behaviour is set,
\* whatever its value; with openFolder = false the open behaviour is
\* 'DontOpen', which is set, so the record is written.
C4_RecordIffOpenBehaviorSet ==
    \A i \in Files :
        /\ created[i].completed =>
              (created[i].stored <=> Truthy(created[i].openBehavior))
        /\ ~created[i].openFolder => created[i].openBehavior = "DontOpen"
        /\ (created[i].completed /\ ~created[i].openFolder) => created[i].stored
        /\ ~created[i].completed => ~created[i].stored

\* C4 witness: a completed create step of a wizard started with
\* openFolder = false, whose record was written.
C4_DontOpenStored ==
    \E i \in Files :
        /\ created[i].completed /\ ~created[i].openFolder
        /\ created[i].openBehavior = "DontOpen" /\ created[i].stored

\* ---- C5
Names(list) == {list[i].name : i \in DOMAIN list}
Present(n) == n \in Names(appSettings)

C6_ConditionalKeysPresentIff ==
    asDone =>
        /\ Present("WEBSITE_CONTENTAZUREFILECONNECTIONSTRING") <=> asInput.context.os = "windows"
        /\ Present("WEBSITE_CONTENTSHARE") <=> asInput.context.os = "windows"
        /\ Present("AzureWebJobsDashboard") <=> asInput.projectRuntime = v1
        /\ Present("AzureWebJobsStorage")
        /\ Present("FUNCTIONS_WORKER_RUNTIME") <=> asInput.context.runtime # Undefined

\* C6 witness: a call for linux on v2 without a worker runtime has returned:
\* of the five keys only AzureWebJobsStorage is present.
C6_OnlyStorageOnLinuxV2 ==
    /\ asDone
    /\ asInput.context.os = "linux"
    /\ asInput.projectRuntime = v2
    /\ asInput.context.runtime = Undefined
    /\ Names(appSettings) \ FeedKeys = {"AzureWebJobsStorage"}

\* ---- C7
\* the entries the builder appends after those of the feed
Added == SubSeq(appSettings, Len(asInput.feed) + 1, Len(appSettings))
RunFromPackage == [name |-> "WEBSITE_RUN_FROM_PACKAGE", value |-> "1"]
AddedFlags == {i \in DOMAIN Added : Added[i].name = "WEBSITE_RUN_FROM_PACKAGE"}

\* C7: the builder keeps the feed's entries first and appends
\* WEBSITE_RUN_FROM_PACKAGE = '1' (once) unless the OS is linux or the language
\* is C# script on runtime v1; for an OS other than linux, v1 with C# script is
\* the only combination for which it is not appended.
C7_RunFromPackageAddedUnless ==
    asDone =>
        /\ SubSeq(appSettings, 1, Len(asInput.feed)) = asInput.feed
        /\ \A i \in AddedFlags : Added[i] = RunFromPackage
        /\ Cardinality(AddedFlags) =
              IF \/ asInput.context.os = "linux"
                 \/ (asInput.projectLanguage = "C#Script" /\ asInput.projectRuntime = v1)
              THEN 0 ELSE 1
        /\ asInput.context.os # "linux" =>
              (AddedFlags = {} <=>
                  (asInput.projectRuntime = v1 /\ asInput.projectLanguage = "C#Script"))

\* C7 witness: a call for C# script on v1 and windows has returned without the
\* flag appended.
C7_NotAddedForV1CSharpScript ==
    /\ asDone
    /\ asInput.context.os = "windows"
    /\ asInput.projectRuntime = v1
    /\ asInput.projectLanguage = "C#Script"
    /\ AddedFlags = {}
    /\ Len(Added) > 0

\* ---- C8
Happened(e) == \E i \in DOMAIN ccEvents : ccEvents[i] = e
Times(e) == Cardinality({i \in DOMAIN ccEvents : ccEvents[i] = e})
At(e) == CHOOSE i \in DOMAIN ccEvents : ccEvents[i] = e

\* C8: in a createChildImpl call prompting completes, then the placeholder is
\* shown, then the execute phase starts; when prompting throws (cancellation
\* or another error), or on the quick path the generated name is missing, the
\* execute phase is never started and no handle is returned.
C8_PromptThenPlaceholderThenExecute ==
    /\ \A e \in {"promptDone", "placeholder", "executeStart"} : Times(e) <= 1
    /\ Happened("placeholder") =>
          Happened("promptDone") /\ At("promptDone") < At("placeholder")
    /\ Happened("executeStart") =>
          Happened("placeholder") /\ At("placeholder") < At("executeStart")
    /\ ccOut.handle # Undefined => Happened("executeStart")
    /\ ccOut.cause = "prompt" =>
          /\ ccOut.thrown \in {"UserCancelledError", "PromptError"}
          /\ ~Happened("promptDone") /\ ~Happened("executeStart")
          /\ ccOut.handle = Undefined /\ ccPc = "failed"
    /\ (/\ ccPc \notin {"idle", "prompting"} /\ ccOut.cause # "prompt"
        /\ ~ccIn.advancedCreation
        /\ wizardContext.relatedName \in {Undefined, ""}) =>
          /\ ~Happened("executeStart")
          /\ ccOut.handle = Undefined
          /\ ccPc \in {"prompted", "naming", "failed"}

\* C8 witness: a call went through prompting, placeholder and execute in this
\* order and returned the handle.
C8_RanInOrder ==
    /\ ccPc = "done"
    /\ ccEvents = <<"promptDone", "placeholder", "executeStart">>
    /\ ccOut.handle # Undefined

\* ---- C9
\* C9: when the execute phase fails, the advanced-creation warning is offered
\* iff the error is not a user cancellation and the quick path was used; the
\* error caught is the error thrown and no handle is returned; a warning is
\* added only by such a failure, and the global setting changes only to true
\* and only when the user accepts a pending warning.
C9_OfferOnlyOnQuickFailureAndRethrow ==
    /\ [](ccOut.cause = "execute" =>
            /\ ccOut.offered <=>
                  (ccOut.raised # "UserCancelledError" /\ ~ccIn.advancedCreation)
            /\ ccOut.thrown = ccOut.raised
            /\ ccOut.raised \in {"UserCancelledError", "CloudError"}
            /\ ccOut.handle = Undefined
            /\ ccPc = "failed")
    /\ [](ccOut.cause # "execute" => ~ccOut.offered)
    /\ [][pendingOffers' > pendingOffers =>
            /\ pendingOffers' = pendingOffers + 1
            /\ ccOut.cause # "execute" /\ ccOut'.cause = "execute"
            /\ ccOut'.raised # "UserCancelledError" /\ ~ccIn.advancedCreation]_vars
    /\ [][(ccOut.cause # "execute" /\ ccOut'.cause = "execute" /\ ccOut'.offered) =>
            pendingOffers' = pendingOffers + 1]_vars
    /\ [][globalAdvanced' # globalAdvanced =>
            /\ globalAdvanced'
            /\ pendingOffers > 0 /\ pendingOffers' = pendingOffers - 1
            /\ ccOut' = ccOut /\ ccPc' = ccPc]_vars

\* C9 witness: the execute phase failed on the quick path with an error other
\* than cancellation: the warning is pending and the error was thrown again.
C9_OfferedAndRethrown ==
    /\ ccOut.cause = "execute"
    /\ ccOut.offered
    /\ pendingOffers = 1
    /\ ccOut.thrown = "CloudError"
    /\ ccPc = "failed"

\* ---- C10
\* C10: with advancedCreation off the call sets the site's OS to linux for
\* Python and to windows for every other language (none included), and the
\* wizard keeps it; with advancedCreation on the OS is still unset when the
\* call hands the context to the wizard.
C10_QuickPathOS ==
    /\ (ccPc # "idle" /\ ~ccIn.advancedCreation) =>
          wizardContext.newSiteOS =
              IF ccIn.language = "Python" THEN "linux" ELSE "windows"
    /\ (ccPc = "prompting" /\ ccIn.advancedCreation) =>
          wizardContext.newSiteOS = Undefined

\* C10 witness: a quick-path call for a Python project is about to prompt with
\* the OS set to linux.
C10_PythonGetsLinux ==
    /\ ccPc = "prompting"
    /\ ~ccIn.advancedCreation
    /\ ccIn.language = "Python"
    /\ wizardContext.newSiteOS = "linux"

\* ---- C11
\* the call has composed its wizard
Composed == ccPc # "idle"

\* C11: with advanced creation off the execute list is exactly resource-group
\* create, storage-account create, site create and no resource-group or
\* storage-account list prompt is queued; with it on the two list prompts are
\* appended to the prompt list and the execute list is exactly site create. In
\* both modes site create occurs exactly once and is the last execute step.
C11_WizardComposedByAdvancedFlag ==
    Composed =>
        /\ ~ccIn.advancedCreation =>
              /\ executeSteps = <<"ResourceGroupCreateStep", "StorageAccountCreateStep",
                                  "SiteCreateStep">>
              /\ \A i \in DOMAIN promptSteps :
                    promptSteps[i] \notin {"ResourceGroupListStep", "StorageAccountListStep"}
        /\ ccIn.advancedCreation =>
              /\ executeSteps = <<"SiteCreateStep">>
              /\ Len(promptSteps) >= 2
              /\ SubSeq(promptSteps, Len(promptSteps) - 1, Len(promptSteps))
                    = <<"ResourceGroupListStep", "StorageAccountListStep">>
        /\ Cardinality({i \in DOMAIN executeSteps : executeSteps[i] = "SiteCreateStep"}) = 1
        /\ executeSteps[Len(executeSteps)] = "SiteCreateStep"

\* C11 witness: a quick-path call whose wizard has run its three execute steps
\* and returned the new site.
C11_QuickWizardRan ==
    /\ ccPc = "done" /\ ~ccIn.advancedCreation
    /\ Len(executeSteps) = 3 /\ Len(promptSteps) = 4

\* ---- C12
\* C12: getDefaultRuntime returns the workspace setting when it is a runtime,
\* else the func cli's runtime when one is detected, else v2; the cli is
\* consulted only when the setting yields nothing; runtimeSource names the
\* source that supplied the returned value.
C12_RuntimeFallbackChain ==
    Composed =>
        /\ ccIn.cliConsulted <=> ~Truthy(ccIn.settingRuntime)
        /\ Truthy(ccIn.settingRuntime) =>
              ccIn.runtime = ccIn.settingRuntime /\ ccIn.runtimeSource = "VSCodeSetting"
        /\ (~Truthy(ccIn.settingRuntime) /\ Truthy(ccIn.cliRuntime)) =>
              ccIn.runtime = ccIn.cliRuntime /\ ccIn.runtimeSource = "LocalFuncCli"
        /\ (~Truthy(ccIn.settingRuntime) /\ ~Truthy(ccIn.cliRuntime)) =>
              ccIn.runtime = v2 /\ ccIn.runtimeSource = "Backup"
        /\ ccIn.runtimeSource \in {"VSCodeSetting", "LocalFuncCli", "Backup"}

\* C12 witness: neither the setting nor the func cli gave a runtime and the
\* call went on with v2 from the backup.
C12_BackupUsed ==
    /\ ccPc = "prompted"
    /\ ccIn.settingRuntime = Undefined /\ ccIn.cliRuntime = Undefined
    /\ ccIn.cliConsulted /\ ccIn.runtimeSource = "Backup" /\ ccIn.runtime = v2


\* ---- C13
\* getSubWizard has returned
SubReturned == lsPc \in {"sub", "executed"}

\* C13: getSubWizard returns none exactly when no template is selected and then
\* leaves the context as it was; the create step runs exactly when a template
\* is selected, so after 'skip for now' no function file is created and no
\* Cached-Function record is written.
C13_NoTemplateNoSubWizard ==
    /\ [](SubReturned => (lsSub.none <=> lsCtx.functionTemplate = NoTemplate))
    /\ [][(lsPc # "sub" /\ lsPc' = "sub" /\ lsCtx.functionTemplate = NoTemplate)
            => lsCtx' = lsCtx]_vars
    /\ [](lsPc = "executed" =>
            /\ lsFile.created <=> lsCtx.functionTemplate # NoTemplate
            /\ lsFile.stored => lsFile.created
            /\ lsCtx.templateId = "skipForNow" =>
                  ~lsFile.created /\ ~lsFile.stored)

\* C13 witness: the user skipped, getSubWizard returned none and the wizard's
\* execute phase created nothing.
C13_SkippedNothingCreated ==
    /\ lsPc = "executed" /\ lsCtx.templateId = "skipForNow"
    /\ lsSub.returned /\ lsSub.none
    /\ ~lsFile.created /\ ~lsFile.stored

\* ---- C14
\* C14: with a template selected the name prompts and the create step follow
\* the language: Java, C#/F#, TypeScript (create step) and the script steps
\* for every other language, the unset one included; exactly one create step.
C14_StepsByLanguage ==
    (SubReturned /\ ~lsSub.none) =>
        LET l  == lsCtx.language
            ps == lsSub.promptSteps
            es == lsSub.executeSteps
        IN  /\ l = "Java" =>
                  /\ SubSeq(ps, 1, 2) = <<"JavaPackageNameStep", "JavaFunctionNameStep">>
                  /\ es[1] = "JavaFunctionCreateStep"
            /\ l \in {"C#", "F#"} =>
                  /\ SubSeq(ps, 1, 2) = <<"DotnetFunctionNameStep", "DotnetNamespaceStep">>
                  /\ es[1] = "DotnetFunctionCreateStep"
            /\ l = "TypeScript" => es[1] = "TypeScriptFunctionCreateStep"
            /\ l \notin {"Java", "C#", "F#", "TypeScript"} =>
                  /\ ps[1] = "ScriptFunctionNameStep"
                  /\ es[1] = "ScriptFunctionCreateStep"
            /\ Cardinality({i \in DOMAIN es : es[i] \in CreateSteps}) = 1

\* C14 witness: a TypeScript project whose function file was created by the
\* TypeScript create step.
C14_TypeScriptCreated ==
    /\ lsPc = "executed" /\ lsCtx.language = "TypeScript"
    /\ lsSub.executeSteps[1] = "TypeScriptFunctionCreateStep"
    /\ lsFile.created

\* ---- C15
StepCount(steps, step) == Cardinality({i \in DOMAIN steps : steps[i] = step})

\* C15: the storage prompt step and the storage execute step are appended
\* exactly when the template is no HTTP trigger and the project has no storage
\* connection; always both or neither, each as the last step of its list.
C15_StorageStepsTogether ==
    (SubReturned /\ ~lsSub.none) =>
        LET ps == lsSub.promptSteps
            es == lsSub.executeSteps
            wanted == /\ ~lsCtx.functionTemplate.isHttpTrigger
                      /\ lsSub.storage \in {Undefined, ""}
        IN  /\ StepCount(ps, "AzureWebJobsStoragePromptStep") = (IF wanted THEN 1 ELSE 0)
            /\ StepCount(es, "AzureWebJobsStorageExecuteStep") = (IF wanted THEN 1 ELSE 0)
            /\ wanted =>
                  /\ ps[Len(ps)] = "AzureWebJobsStoragePromptStep"
                  /\ es[Len(es)] = "AzureWebJobsStorageExecuteStep"
                  /\ Len(ps) > Len(lsCtx.functionTemplate.userPromptedSettings) + 1
                  /\ Len(es) = 2

\* C15 witness: a blob trigger in a project without a storage connection got
\* both steps, after its name and setting prompts.
C15_BlobGetsStorageSteps ==
    /\ lsPc = "sub" /\ lsCtx.functionTemplate = BlobJs
    /\ lsSub.storage = Undefined
    /\ lsSub.promptSteps[Len(lsSub.promptSteps)] = "AzureWebJobsStoragePromptStep"
    /\ lsSub.executeSteps[2] = "AzureWebJobsStorageExecuteStep"

\* ---- C16
Supplied == lsStep.triggerSettings
\* the last supplied setting whose key has the same lower-cased form as i's
LastLike(i) ==
    CHOOSE j \in DOMAIN Supplied :
        /\ ToLowerCase(Supplied[j].key) = ToLowerCase(Supplied[i].key)
        /\ \A k \in DOMAIN Supplied :
              ToLowerCase(Supplied[k].key) = ToLowerCase(Supplied[i].key) => k <= j

\* C16 as stated: with a template selected every supplied trigger setting is
\* found in the context under the lower-cased form of its key, whatever the
\* letter case of the key supplied; with no template nothing is copied.
C16_EverySettingFound ==
    SubReturned =>
        IF lsSub.none THEN lsCtx.settings = <<>>
        ELSE \A i \in DOMAIN Supplied :
                /\ ToLowerCase(Supplied[i].key) \in DOMAIN lsCtx.settings
                /\ lsCtx.settings[ToLowerCase(Supplied[i].key)] = Supplied[i].value

\* C16, amended: with a template selected the context holds, under the
\* lower-cased form of every supplied key, the value of the last supplied
\* setting whose key has that lower-cased form, and nothing else is copied;
\* the settings are there when the sub-wizard with the setting prompts is
\* returned; with no template nothing is copied.
C16_LastSettingPerLowerKeyFound ==
    SubReturned =>
        IF lsSub.none THEN lsCtx.settings = <<>>
        ELSE /\ DOMAIN lsCtx.settings =
                    {ToLowerCase(Supplied[i].key) : i \in DOMAIN Supplied}
             /\ \A i \in DOMAIN Supplied :
                    /\ ToLowerCase(Supplied[i].key) \in DOMAIN lsCtx.settings
                    /\ lsCtx.settings[ToLowerCase(Supplied[i].key)]
                          = Supplied[LastLike(i)].value

\* C16 witness: two supplied keys differ in letter case only, and the context
\* holds the value of the later one.
C16_LaterKeyWins ==
    /\ lsPc = "sub" /\ ~lsSub.none
    /\ Len(Supplied) = 2
    /\ Supplied[1].key = "AuthLevel" /\ Supplied[2].key = "authLevel"
    /\ lsCtx.settings["authlevel"] = Supplied[2].value
    /\ Supplied[1].value # Supplied[2].value

\* ---- C17
InPrompt == lsPc \in {"loop", "picking", "filtering", "break"}
TemplatesShown == SelectSeq(lsPicks, LAMBDA pick : pick.data = "template")
WasShown(t) == \E i \in DOMAIN lsPicks : lsPicks[i] = TemplatePick(t)

\* C17: when the user does not pick 'change filter' for ever, prompt ends; and
\* when it returns, either the context's functionTemplate is the template
\* picked, or the skip was recorded (templateId = 'skipForNow') and
\* functionTemplate is still unset.
C17_PromptEndsWithTemplateOrSkip ==
    /\ InPrompt ~> ~InPrompt
    /\ [](lsPc = "prompted" =>
            \/ /\ lsCtx.functionTemplate # NoTemplate
               /\ WasShown(lsCtx.functionTemplate)
               /\ lsCtx.templateId # "skipForNow"
            \/ /\ lsCtx.functionTemplate = NoTemplate
               /\ lsCtx.templateId = "skipForNow")
    /\ [][(lsPc = "filtering" /\ lsPc' \notin {"filtering", "failed"})
            => (lsPc' = "loop" /\ lsCtx'.functionTemplate = NoTemplate)]_vars

\* C17 witness: prompt returned on 'skip for now' after the filter had been
\* changed away from the saved one.
C17_SkippedAfterFilterChange ==
    /\ lsPc = "prompted" /\ lsCtx.templateId = "skipForNow"
    /\ lsCtx.functionTemplate = NoTemplate
    /\ lsCtx.templateFilter = Core /\ lsSetting = All

\* ---- C18
\* C18: every list of picks ends with 'change filter', which occurs once, and
\* begins with 'skip for now' exactly in the project wizard, where it occurs
\* once; so outside the project wizard prompt returns only with a template.
C18_PseudoEntries ==
    /\ lsPicks # <<>> =>
          /\ lsPicks[Len(lsPicks)] = ChangeFilterPick
          /\ StepCount(lsPicks, ChangeFilterPick) = 1
          /\ lsPicks[1] = SkipForNowPick <=> lsStep.isProjectWizard
          /\ StepCount(lsPicks, SkipForNowPick) = (IF lsStep.isProjectWizard THEN 1 ELSE 0)
    /\ lsPc = "picking" => lsPicks # <<>>
    /\ (lsPc = "prompted" /\ ~lsStep.isProjectWizard) =>
          lsCtx.functionTemplate # NoTemplate

\* C18 witness: outside the project wizard the list begins with a template and
\* prompt returned with the template picked from it.
C18_ReturnedWithTemplate ==
    /\ lsPc = "prompted" /\ ~lsStep.isProjectWizard
    /\ lsPicks[1].data = "template"
    /\ WasShown(lsCtx.functionTemplate)

\* ---- C19
\* C19: the tier chosen after 'change filter' is saved as the workspace setting
\* exactly when the step is not in the project wizard or the open behaviour is
\* 'AlreadyOpen', else the setting stays; the next list is that of the tier in
\* use; and on return the recorded templateFilter is the tier of the list
\* shown last.
C19_FilterUsedAndSaved ==
    /\ [][(lsPc = "filtering" /\ lsPc' = "loop") =>
            lsSetting' = IF ~lsStep.isProjectWizard \/ lsCtx.openBehavior = "AlreadyOpen"
                         THEN lsFilter' ELSE lsSetting]_vars
    /\ [][(lsPc = "loop" /\ lsPc' = "picking") =>
            /\ lsShown' = lsFilter
            /\ {lsPicks'[i].template : i \in {j \in DOMAIN lsPicks' :
                                                 lsPicks'[j].data = "template"}}
                  = GetTemplates(lsFilter)]_vars
    /\ [](lsPc = "prompted" => lsCtx.templateFilter = lsShown)

\* C19 witness: in a project wizard on an open folder the user changed the
\* filter to Verified, it was saved, and prompt returned with it.
C19_SavedInOpenProject ==
    /\ lsPc = "prompted" /\ lsStep.isProjectWizard
    /\ lsCtx.openBehavior = "AlreadyOpen"
    /\ lsSetting = Verified /\ lsCtx.templateFilter = Verified

\* ---- C20
\* C20: under Verified every template whose id matches the HTTP-trigger pattern
\* stands before every template whose id does not; under Core and All, and
\* among the templates that do not match under Verified, the templates stand
\* in alphabetical order of their names.
C20_HttpFirstThenAlphabetical ==
    \A i, j \in DOMAIN TemplatesShown :
        i < j =>
            LET a == TemplatesShown[i].template
                b == TemplatesShown[j].template
            IN  /\ lsShown = Verified => ~(~RegExpTest(a.id) /\ RegExpTest(b.id))
                /\ (lsShown \in {Core, All} \/ (~RegExpTest(a.id) /\ ~RegExpTest(b.id)))
                      => LocaleCompare(a.name, b.name) <= 0

\* C20 witness: under Verified an HTTP trigger stands before a template whose
\* name comes earlier in the alphabet.
C20_HttpBeforeBlob ==
    /\ lsPc = "picking" /\ lsShown = Verified
    /\ \E i, j \in DOMAIN TemplatesShown :
          /\ i < j
          /\ RegExpTest(TemplatesShown[i].template.id)
          /\ TemplatesShown[j].template = BlobJs
          /\ LocaleCompare(TemplatesShown[i].template.name, BlobJs.name) > 0

\* ---- C21
\* C21 as first stated: execute runs the bundle check exactly when the runtime
\* is not v1, the template is neither an HTTP nor a timer trigger, the language
\* is neither C# nor F#, and neither the tasks file nor the settings file
\* contains the legacy extension-install command (a file that cannot be read
\* counting as one without the command).
C21_BundleCheckIffNoFileHasLegacy ==
    exScan.read =>
        (exPc = "verify" <=>
            /\ exScan.runtime # "~1"
            /\ ~exCtx.functionTemplate.isHttpTrigger
            /\ ~exCtx.functionTemplate.isTimerTrigger
            /\ exScan.language \notin {"C#", "F#"}
            /\ exScan.tasksFile # "legacy"
            /\ exScan.settingsFile # "legacy")

\* C21: execute runs the bundle check exactly when the runtime is not v1, the
\* template is neither an HTTP nor a timer trigger, the language is neither C#
\* nor F#, and the scan of the tasks file and then the settings file finds no
\* legacy extension-install command, where the scan ends at the first file
\* that cannot be read: the settings file is then not looked at.
C21_BundleCheckIffScanFindsNoLegacy ==
    exScan.read =>
        (exPc = "verify" <=>
            /\ exScan.runtime # "~1"
            /\ ~exCtx.functionTemplate.isHttpTrigger
            /\ ~exCtx.functionTemplate.isTimerTrigger
            /\ exScan.language \notin {"C#", "F#"}
            /\ exScan.tasksFile # "legacy"
            /\ (exScan.tasksFile = "ioerror" \/ exScan.settingsFile # "legacy"))

\* C21 witness: the tasks file could not be read, the settings file holds the
\* legacy command, and the bundle check is about to run.
C21_UnreadableTasksFileHidesLegacy ==
    /\ exScan.read /\ exPc = "verify"
    /\ exScan.tasksFile = "ioerror" /\ exScan.settingsFile = "legacy"

\* ---- C22
VerifyStep == exVerify'.runs = exVerify.runs + 1

TheDefaultBundle == [id |-> "Microsoft.Azure.Functions.ExtensionBundle",
                     version |-> "[1.*, 2.0.0)"]

\* C22 as first stated: verifyExtensionBundle writes exactly the default
\* bundle into a file without an extensionBundle field and leaves the other
\* fields alone, writes nothing into a file that has the field with any
\* value, and a second run leaves the file as the first left it.
C22_NoWriteWhenFieldPresent ==
    [][VerifyStep =>
          /\ exHost'.parses = exHost.parses /\ exHost'.version = exHost.version
          /\ exVerify'.wrote =>
                /\ exHost.extensionBundle = NoBundle
                /\ exHost'.extensionBundle = TheDefaultBundle
          /\ ~exVerify'.wrote => exHost' = exHost
          /\ exHost.extensionBundle # NoBundle => ~exVerify'.wrote
          /\ (exVerify.runs > 0 /\ ~exVerify.throws) => exHost' = exHost]_vars

\* C22: verifyExtensionBundle writes exactly the default bundle into a file
\* whose extensionBundle field is missing or falsy (null) and leaves the other
\* fields alone, writes nothing into a file whose field has a truthy value,
\* and after a run that did not fail a further run writes nothing and does
\* not fail.
C22_NoWriteWhenFieldTruthy ==
    [][VerifyStep =>
          /\ exHost'.parses = exHost.parses /\ exHost'.version = exHost.version
          /\ exVerify'.wrote =>
                /\ exHost.extensionBundle \in {NoBundle, NullBundle}
                /\ exHost'.extensionBundle = TheDefaultBundle
          /\ ~exVerify'.wrote => exHost' = exHost
          /\ (exHost.parses /\ exHost.extensionBundle \in {NoBundle, NullBundle}
                 /\ ~exVerify'.throws) => exVerify'.wrote
          /\ exHost.extensionBundle \notin {NoBundle, NullBundle} => ~exVerify'.wrote
          /\ (exVerify.runs > 0 /\ ~exVerify.throws) =>
                exHost' = exHost /\ ~exVerify'.wrote /\ ~exVerify'.throws]_vars

\* C22 witness: the file was verified twice; the first run wrote the default
\* bundle, the second wrote nothing.
C22_SecondRunWroteNothing ==
    /\ exVerify.runs = 2 /\ exVerify.written = 1
    /\ ~exVerify.wrote /\ ~exVerify.throws
    /\ exHost.extensionBundle = TheDefaultBundle

\* ---- C23
PostStep == exPosts' = exPosts - 1

FromCacheStep == exPosts' = exPosts + 1 /\ exPc' = exPc

\* C23: the post-creation step goes to open the new file exactly when the
\* project path is inside the open workspace and the file exists when the
\* step runs; whatever fails inside it reaches no caller: a run of the step
\* changes neither the state of an execute call nor its error nor the store,
\* execute returns once the step is started, and
\* runPostFunctionCreateStepsFromCache returns with the key cleared.
C23_PostStepOpensAndSwallows ==
    /\ [](exPost.ran =>
            /\ exPost.openTextDocument <=> (exPost.inWorkspace /\ exPost.exists)
            /\ exPost.opened => exPost.openTextDocument
            /\ ~exPost.thrown)
    /\ [][PostStep => UNCHANGED <<exPc, exOut, exStore, exTrace>>]_vars
    /\ [][(exPc = "cache" /\ exPc' # "cache") =>
            exPc' = "returned" /\ exOut' = "none" /\ exPosts' = exPosts + 1]_vars
    /\ [][FromCacheStep => exStore' = {} /\ exOut' = exOut]_vars

\* C23 witness: after execute returned, its post-creation step found the file
\* in the open workspace, went to open it and failed; the call stays returned
\* without an error.
C23_OpenFailedCallerReturned ==
    /\ exPc = "returned" /\ exOut = "none"
    /\ exPost.ran /\ exPost.openTextDocument /\ ~exPost.opened

\* ---- C25
StepRank(event) ==
    CASE event = "template" -> 1
      [] event = "executeCore" -> 2
      [] event = "shouldUseExtensionBundle" -> 3
      [] event = "verifyExtensionBundle" -> 4
      [] event = "store" -> 5
      [] event = "timer" -> 6
      [] event = "post" -> 7

Took(event) == \E i \in DOMAIN exTrace : exTrace[i] = event

\* C25: execute takes its steps in the order template check, executeCore,
\* bundle check, cache and post-creation step. Without a template it fails at
\* the check, before executeCore: no file is created. When executeCore or the
\* bundle check fails, the call fails with that error, nothing is written to
\* the store, no timer is armed and the post-creation step is not started.
C25_StepsInOrderFailuresStop ==
    /\ [](\A i, j \in DOMAIN exTrace :
             i < j => StepRank(exTrace[i]) < StepRank(exTrace[j]))
    /\ [](exPc = "returned" =>
             /\ Took("template") /\ Took("executeCore")
             /\ Took("shouldUseExtensionBundle") /\ Took("post"))
    /\ [](exCtx.functionTemplate = [id |-> Undefined, isHttpTrigger |-> FALSE,
                                    isTimerTrigger |-> FALSE]
             => \/ exPc \in {"idle", "template"}
                \/ /\ exPc = "failed" /\ exOut = "NonNullError"
                   /\ exTrace = <<>> /\ exFiles = 0)
    /\ [](exPc = "failed" =>
             /\ exOut \in {"NonNullError", "CoreError", "HostJsonError"}
             /\ exTimers = 0
             /\ ~Took("store") /\ ~Took("timer") /\ ~Took("post"))
    /\ [][(exPc # "failed" /\ exPc' = "failed") =>
             UNCHANGED <<exStore, exTimers, exPosts>>]_vars
    /\ [][(exPc = "core" /\ exPc' # "core") =>
             \/ exPc' = "bundle" /\ exFiles' = exFiles + 1
             \/ exPc' = "failed" /\ exOut' = "CoreError" /\ exFiles' = exFiles]_vars
    /\ [][(exPc = "verify" /\ exPc' # "verify") =>
             IF exVerify'.throws
             THEN exPc' = "failed" /\ exOut' = "HostJsonError"
             ELSE exPc' = "cache"]_vars
    /\ [][(exStore' # exStore /\ exStore' # {}) =>
             exPc = "cache" /\ exPc' = "returned"]_vars

\* C25 witness: with an open behaviour set, the file was created and the
\* bundle check then failed: the call failed, with nothing in the store, no
\* timer and no post-creation step.
C25_BundleCheckFailedNothingCached ==
    /\ exPc = "failed" /\ exOut = "HostJsonError"
    /\ exCtx.openBehavior = "AddToWorkspace"
    /\ exFiles = 1 /\ exStore = {} /\ exTimers = 0 /\ exPosts = 0

\* ---- C26
\* C26: when a timer callback empties the store, the record it removes is the
\* one stored by the creation that armed that timer: the timer of an earlier
\* creation never clears the record of a later one, which stays until it is
\* consumed at activation or its own timer fires.
C26_OnlyOwnTimerClears ==
    [][(globalState # {} /\ globalState' = {} /\ activated' = activated) =>
          \E t \in timers \ timers' :
              t.owner = (CHOOSE f \in globalState : TRUE).newFilePath]_vars

\* ---- C27
ActivationStep == ~activated /\ activated'

\* C27: runPostFunctionCreateStepsFromCache reads and then clears: when the
\* store holds a record the post-creation step is started once for exactly
\* that record and the key is cleared; when it holds none, no step is started
\* and the store is left as it is; so over any number of activations a
\* record is run from the cache at most once.
C27_ReadThenClear ==
    /\ [][ActivationStep =>
            IF globalState # {}
            THEN /\ globalState' = {}
                 /\ LET id == (CHOOSE f \in globalState : TRUE).newFilePath
                    IN  created' = [created EXCEPT ![id].fromCache = @ + 1]
            ELSE UNCHANGED <<globalState, created>>]_vars
    /\ [](\A id \in DOMAIN created : created[id].fromCache <= 1)

\* C27 witness: a record was run from the cache, and the process has since
\* restarted and activated again, finding the store empty.
C27_SecondActivationFoundNothing ==
    /\ epoch = 2 /\ activated
    /\ Len(created) = 1 /\ created[1].fromCache = 1
    /\ globalState = {}

\* ---- C24
LoadFailed == pgLast.outcome # "pending" /\ pgLast.errorType # Undefined

\* C24: a listing error whose type is 'notfound' in any letter case makes
\* loadMoreChildrenImpl return an empty result, every other listing error is
\* thrown as it is; in both cases the stored link is not advanced: it is the
\* link the request was made with.
C24_NotFoundIsEmptyOthersThrown ==
    /\ [](LoadFailed =>
            /\ IF pgLast.errorType \in {"NotFound", "notfound", "NOTFOUND"}
               THEN pgLast.outcome = "returned" /\ pgLast.items = <<>>
                    /\ pgLast.thrown = Undefined
               ELSE pgLast.outcome = "thrown" /\ pgLast.thrown = pgLast.errorType
            /\ pgNextLink = pgLast.request.link
            /\ pgNextLink \in {pgLast.before, Undefined})
    /\ [][(pgLast.outcome = "pending" /\ pgLast'.errorType # Undefined) =>
            UNCHANGED <<pgNextLink, pgListed>>]_vars

\* C24 witness: the continuation of a stored link failed with 'NotFound': an
\* empty result, the link still stored.
C24_NotFoundOnContinuation ==
    /\ pgLast.outcome = "returned" /\ pgLast.errorType = "NotFound"
    /\ pgLast.items = <<>>
    /\ pgLast.request.op = "listNext" /\ pgNextLink = pgLast.request.link

\* ---- C29
BetweenLoads == pgLast.outcome \in {"returned", "thrown"}

RequestsAndReplaces ==
    /\ [](pgLast.outcome # "none" =>
            pgLast.request = IF pgLast.clearCache \/ pgLast.before = Undefined
                             THEN [op |-> "list", link |-> Undefined]
                             ELSE [op |-> "listNext", link |-> pgLast.before])
    /\ [][(pgLast.outcome = "pending" /\ pgLast'.outcome = "returned"
              /\ pgLast'.errorType = Undefined) =>
            pgNextLink' = pgListed'.nextLink /\ pgListed'.listed]_vars

\* C29 as first stated: hasMoreChildrenImpl is true exactly when the most
\* recent successful listing returned a next link; clearCache=true requests
\* the first page, clearCache=false the continuation of the stored link if
\* there is one and the first page if not; a successful call replaces the
\* stored link with the one returned.
C29_HasMoreIffLastListingHadLink ==
    /\ [](BetweenLoads =>
            (HasMoreChildrenImpl <=> (pgListed.listed /\ pgListed.nextLink # Undefined)))
    /\ RequestsAndReplaces

\* C29: hasMoreChildrenImpl is true exactly when the most recent successful
\* listing returned a next link and no call with clearCache=true was made
\* since that listing, and the stored link is then that link; the requests
\* and the replacement of the link are as first stated.
C29_HasMoreIffLinkNotResetSince ==
    /\ [](HasMoreChildrenImpl <=>
            (pgListed.listed /\ pgListed.nextLink # Undefined /\ ~pgListed.reset))
    /\ [](HasMoreChildrenImpl => pgNextLink = pgListed.nextLink)
    /\ RequestsAndReplaces

\* C29 witness: a listing returned a next link, a later call with
\* clearCache=true failed, and hasMoreChildrenImpl is false.
C29_FailedRefreshForgotLink ==
    /\ pgLast.outcome = "thrown" /\ pgLast.clearCache
    /\ pgListed.listed /\ pgListed.nextLink = "page2"
    /\ ~HasMoreChildrenImpl

\* ---- C28
\* C28: sortTemplates is a consistent comparison under every tier: for any two
\* templates of a list shown, sortTemplates(a, b) and sortTemplates(b, a) have
\* opposite signs or are both zero, also when both ids match the HTTP-trigger
\* pattern under Verified.
C28_ComparatorConsistent ==
    lsPc = "picking" =>
        \A i, j \in DOMAIN TemplatesShown :
            i # j =>
                LET a == TemplatesShown[i].template
                    b == TemplatesShown[j].template
                IN  SortTemplates(a, b, lsShown) = 0 - SortTemplates(b, a, lsShown)

\* ---- C30
Called(call) == \E i \in DOMAIN upTrace : upTrace[i].call = call

\* C30: once a file marked encrypted has been decrypted it is read again and
\* then encrypted again, also when that read fails, and it is encrypted at no
\* other time; the remote settings are updated only right after they were
\* listed and confirmOverwriteSettings completed; a file without Values makes
\* the call fail with 'No settings found' without a remote list or update.
C30_EncryptedAgainUpdateGuarded ==
    /\ [](upFile.IsEncrypted =>
            \/ upPc = "decrypt"
            \/ Len(upTrace) >= 2 /\ upTrace[2].call = "decryptLocalSettings")
    /\ [](\A i \in DOMAIN upTrace :
            upTrace[i] = UploadCall("decryptLocalSettings", TRUE) =>
                /\ upPc # "reread" =>
                      i + 1 <= Len(upTrace) /\ upTrace[i + 1].call = "readJson"
                /\ upPc \notin {"reread", "encrypt"} =>
                      /\ i + 2 <= Len(upTrace)
                      /\ upTrace[i + 2].call = "encryptLocalSettings")
    /\ [](\A i \in DOMAIN upTrace :
            upTrace[i].call = "encryptLocalSettings" =>
                i > 2 /\ upTrace[i - 2] = UploadCall("decryptLocalSettings", TRUE))
    /\ [](\A i \in DOMAIN upTrace :
            upTrace[i].call = "updateApplicationSettings" =>
                /\ i > 2
                /\ upTrace[i - 1] = UploadCall("confirmOverwriteSettings", TRUE)
                /\ upTrace[i - 2] = UploadCall("listApplicationSettings", TRUE))
    /\ [](upRemote.updated =>
            /\ upRemote.listed
            /\ upTrace[Len(upTrace)] = UploadCall("updateApplicationSettings", TRUE))
    /\ [][(upPc = "values" /\ upLocal.Values = Undefined) =>
            /\ upPc' = "failed" /\ upOut' = "No settings found"
            /\ UNCHANGED <<upRemote, upTrace>>]_vars
    /\ [](upOut = "No settings found" =>
            /\ upLocal.Values = Undefined
            /\ ~Called("listApplicationSettings")
            /\ ~Called("updateApplicationSettings")
            /\ ~upRemote.listed /\ ~upRemote.updated)

\* C30 witness: the file was decrypted, reading it again failed, and it was
\* encrypted again before the call failed with the read error.
C30_RereadFailedStillEncrypted ==
    /\ upPc = "failed" /\ upOut = "ReadError"
    /\ Len(upTrace) = 4
    /\ upTrace[2] = UploadCall("decryptLocalSettings", TRUE)
    /\ upTrace[3] = UploadCall("readJson", FALSE)
    /\ upTrace[4] = UploadCall("encryptLocalSettings", TRUE)

\* ---- C31
CreateCalled == lsPc # "idle"

\* C31: create with a template id, on a context with a language and a
\* runtime, queries the catalog with the 'All' filter; if a template has
\* exactly that id the context's functionTemplate is that template, prompt is
\* never entered and no list is ever shown; if none has, create fails with
\* 'Could not find template' and functionTemplate is as it was. Without a
\* template id create leaves functionTemplate as it was and queries nothing.
C31_CreateWithTemplateId ==
    /\ [](CreateCalled /\ lsCreate.templateId # <<>>
             /\ lsCtx.language # Undefined /\ lsCtx.runtime # Undefined =>
            /\ lsCreate.queried = "All"
            /\ IF \E t \in Catalog : t.id = lsCreate.templateId
               THEN /\ lsCreate.error = "none"
                    /\ lsCtx.functionTemplate \in Catalog
                    /\ lsCtx.functionTemplate.id = lsCreate.templateId
                    /\ ~InPrompt /\ lsPicks = <<>> /\ lsShown = Undefined
               ELSE /\ lsPc = "failed"
                    /\ lsCreate.error = "Could not find template"
                    /\ lsCtx.functionTemplate = lsCreate.before)
    /\ [](CreateCalled /\ lsCreate.templateId = <<>> =>
            /\ lsCreate.queried = Undefined /\ lsCreate.error = "none"
            /\ lsPicks = <<>> => lsCtx.functionTemplate = lsCreate.before)
    /\ [][(lsPc = "idle" /\ lsPc' # "idle" /\ lsCreate'.templateId = <<>>) =>
            lsPc' = "created" /\ lsCtx'.functionTemplate = lsCreate'.before]_vars

\* C31 witness: create was given the id of the HTTP trigger template on a
\* context without a template; the template is set and the wizard has run to
\* its end without showing a list.
C31_FoundByIdNoListShown ==
    /\ lsCreate.templateId = <<"HttpTrigger", "-", "JavaScript">>
    /\ lsCreate.before.id = Undefined
    /\ lsCtx.functionTemplate \in Catalog
    /\ lsCtx.functionTemplate.id = lsCreate.templateId
    /\ lsFile.created /\ lsPicks = <<>>

\* ======================================================= specifications

\* the function-create step with its cache, timers and restarts
InitCache ==
    /\ CacheIdle /\ SettingsIdle /\ ChildIdle /\ ListIdle
    /\ ExecuteIdle /\ PageIdle /\ UploadIdle

NextCache ==
    \/ RunPostFunctionCreateStepsFromCache
    \/ CreateNewProject
    \/ SkipCreateStep
    \/ ExecuteCore
    \/ ExecuteBundle
    \/ ExecuteVerify
    \/ ExecuteCache
    \/ TimerFires
    \/ Tick
    \/ Restart

SpecCache == InitCache /\ [][NextCache]_vars

\* one call of createFunctionAppSettings on any input
InitSettings ==
    /\ ExecuteIdle
    /\ PageIdle
    /\ UploadIdle
    /\ CacheIdle
    /\ ChildIdle
    /\ ListIdle
    /\ asInput \in AppSettingsInputs
    /\ appSettings = <<>>
    /\ asDone = FALSE

NextSettings == BuildAppSettings

SpecSettings == InitSettings /\ [][NextSettings]_vars

\* createChildImpl calls, with the advanced-creation setting of either value
InitChild ==
    /\ ExecuteIdle
    /\ PageIdle
    /\ UploadIdle
    /\ CacheIdle
    /\ SettingsIdle
    /\ ListIdle
    /\ ccPc = "idle"
    /\ ccIn = NoCall
    /\ wizardContext = NewWizardContext(Undefined)
    /\ promptSteps = <<>>
    /\ executeSteps = <<>>
    /\ ccEvents = <<>>
    /\ ccOut = NoOutcome
    /\ pendingOffers = 0
    /\ globalAdvanced \in BOOLEAN
    /\ ccCalls = 0

NextChild ==
    \/ CreateChildStart
    \/ WizardPrompt
    \/ ShowCreatingTreeItem
    \/ AwaitRelatedName
    \/ WizardExecute
    \/ ReturnTreeItem
    \/ AcceptOffer
    \/ DismissOffer

SpecChild == InitChild /\ [][NextChild]_vars

\* the template list step in a wizard, with any workspace filter setting
InitList ==
    /\ ExecuteIdle
    /\ PageIdle
    /\ UploadIdle
    /\ CacheIdle
    /\ SettingsIdle
    /\ ChildIdle
    /\ lsPc = "idle"
    /\ lsStep = NoStep
    /\ lsCtx = NoListCtx
    /\ lsFilter = Verified
    /\ lsSetting \in {Undefined, Core, All}
    /\ lsPicks = <<>>
    /\ lsShown = Undefined
    /\ lsSub = NoSubWizard
    /\ lsFile = NoFile
    /\ lsCreate = NoCreate

NextList ==
    \/ ListCreate
    \/ PromptBegin
    \/ ShowQuickPick
    \/ PickTemplate
    \/ PickSkipForNow
    \/ PickChangeFilter
    \/ PickCancel
    \/ ChooseFilter
    \/ PromptReturn
    \/ GetSubWizard
    \/ ListExecute

SpecList == InitList /\ [][NextList]_vars

\* the same, where the program's own steps are taken when they can be, the
\* user answers the tier prompt, and the user does not pick 'change filter'
\* for ever
FairList ==
    /\ WF_vars(PromptBegin)
    /\ WF_vars(ShowQuickPick)
    /\ WF_vars(PromptReturn)
    /\ WF_vars(ChooseFilter \/ PickCancel)
    /\ SF_vars(PickTemplate \/ PickSkipForNow \/ PickCancel)

SpecListFair == SpecList /\ FairList

\* execute, runPostFunctionCreateStepsFromCache and the post-creation step on
\* any context, any project files and any host.json
InitExecute ==
    /\ CacheIdle /\ SettingsIdle /\ ChildIdle /\ ListIdle
    /\ PageIdle /\ UploadIdle
    /\ exPc = "idle"
    /\ exCtx = [functionTemplate |-> NoTemplate, openBehavior |-> Undefined]
    /\ exCalls = 0
    /\ exTrace = <<>>
    /\ exScan = NoScan
    /\ exHost \in HostJsons
    /\ exVerify = NoVerify
    /\ exStore = {}
    /\ exTimers = 0
    /\ exFiles = 0
    /\ exPosts = 0
    /\ exPost = NoPost
    /\ exOut = "none"

NextExecute ==
    \/ CallExecute
    \/ CheckTemplate
    \/ CallExecuteCore
    \/ CallShouldUseExtensionBundle
    \/ CallVerifyExtensionBundle
    \/ CacheAndStartPost
    \/ CallFromCache
    \/ PostTaskRuns

SpecExecute == InitExecute /\ [][NextExecute]_vars

\* the provider's listing of function apps, page by page
InitPage ==
    /\ CacheIdle /\ SettingsIdle /\ ChildIdle /\ ListIdle
    /\ ExecuteIdle /\ UploadIdle
    /\ PageIdle

NextPage ==
    \/ LoadMoreChildrenStart
    \/ LoadMoreChildrenEnd

SpecPage == InitPage /\ [][NextPage]_vars

\* one call of uploadAppSettings on any settings file and any remote settings
InitUpload ==
    /\ CacheIdle /\ SettingsIdle /\ ChildIdle /\ ListIdle
    /\ ExecuteIdle /\ PageIdle
    /\ UploadIdle

NextUpload ==
    \/ UploadStart
    \/ DecryptLocalSettings
    \/ RereadLocalSettings
    \/ EncryptLocalSettings
    \/ ListApplicationSettings
    \/ ConfirmOverwriteSettings
    \/ UpdateApplicationSettings

SpecUpload == InitUpload /\ [][NextUpload]_vars

====
